---- MODULE Spec2Model ----
(***************************************************************************)
(* Head-tracking / gaze pipeline of head_tracking_vr.                      *)
(*                                                                         *)
(*   Spec            the useHeadTracking hook (src/unnamed/part_000,       *)
(*                   lines 337-684): camera frames, detector results,      *)
(*                   control operations (pause, recenter, mode).           *)
(*   SpecTuning      the same hook driven by the filter sliders.           *)
(*   SpecEyes        the same hook on degenerate and borderline eyes.      *)
(*   SpecPosition    the EMA position tracker (legacy useHeadTracking,     *)
(*                   part_000 lines 718-921; same arithmetic as            *)
(*                   pages/Home.tsx and useMediaPipe).                     *)
(*   SpecCalibration the CalibrationOverlay session (part_001).            *)
(*   SpecRegression  PolynomialRegression (utils/RegressionUtils.ts).      *)
(*   SpecController  the GazeController cursor mapping (part_002).         *)
(*   SpecKalman      a KalmanFilter instance (utils/KalmanFilter.ts).      *)
(*   SpecYaw         the yaw correction of the hook over all of [-pi, pi]. *)
(*   SpecMediaPipe   the useMediaPipe hook (part_000, lines 9-153).        *)
(*                                                                         *)
(* Numbers.  JavaScript doubles are modelled in fixed point, every         *)
(* operation rounding its exact result to the nearest representable value  *)
(* (RDiv), as IEEE arithmetic does at a finer resolution:                  *)
(*   angles          milliradians            (PI = 3142)                   *)
(*   time            milliseconds                                          *)
(*   EAR             1/1000                                                *)
(*   pixel offsets   1/1000 pixel            (Kalman state, covariance)    *)
(*   normalized      1/1000000               (iris offsets, eye scale)     *)
(*   positions       1/100 position unit     (EMA eye position)            *)
(* The regression works on exact rationals <<numerator, denominator>>.     *)
(***************************************************************************)
EXTENDS Integers, Sequences, FiniteSets, TLC

VARIABLES
    \* ---- useHeadTracking: React state
    isTracking, trackingMode, minCutoff, beta, isMediaPipeReady,
    eyePos, rotation, blink, iris, gaze, fps,
    wasBlinking,     \* history: blink.isBlinking before the last processed frame
    \* ---- useHeadTracking: refs
    isTrackingRef, configRef, isInitializedRef, frameCountRef, lastTimeRef,
    filterYaw, filterPitch, filterRoll, kalmanRight, kalmanLeft,
    lastEyePosRef, rotationOffsetRef, recenterNextFrameRef,
    \* ---- useHeadTracking: the onResults closure, the detector, the clock
    onResultsMode,   \* trackingMode as captured by the onResults closure
    pending,         \* the result the detector owes for the frame sent to it
    lastOutcome,     \* history: how the last camera frame ended
    heldOver,        \* history: the last recenter request outlived a result without a usable face
    uncaught,        \* an exception left the per-frame handler
    now,             \* Date.now()
    nFrames,         \* camera frames delivered so far
    \* ---- legacy useHeadTracking: the EMA position tracker
    legacyEyePos,    \* the eyePos state of the legacy hook
    eyePosEMARef, alpha, alphaRef,
    noFaceRun,       \* history: results without a face since the last face
    nFaces,          \* results with a face so far
    \* ---- PolynomialRegression
    coefficientsX, coefficientsY,
    lastCall,        \* history: the last method called, its input and its outcome
    \* ---- CalibrationOverlay and the page that mounts it
    calPhase,        \* the page: "idle", "active" (overlay mounted), "done", "cancelled"
    committedModel,  \* the page: the calibration model in force
    step, samples, countdown, currentSamplesRef,
    gazeProp,        \* the gaze prop of the last render
    closureGaze,     \* gaze as captured by the recordPoint the countdown effect calls
    timerActive,     \* the setInterval of the countdown effect is running
    stepTimeout,     \* the setTimeout of recordPoint has not fired yet
    gazeLive,        \* the tracker is delivering gaze (FALSE: tracking is paused)
    fresh,           \* a gaze update arrived since the last tick of the interval
    recorded,        \* history: the point indices recordPoint ran for, in order
    nFit, nComplete, nCancel,   \* history: calls of fit, onComplete, onCancel
    nNaN,            \* history: NaN gaze values delivered
    received,        \* history: the gaze values delivered in the final tick of the current point, before its record
    \* ---- GazeController: two instances mounted side by side, given the same
    \* props but for calibration
    props,           \* rotation, gaze, isTracking of the last render
    windowAspect,    \* window.innerWidth / window.innerHeight, 1/1000
    calibration,     \* the calibration prop of each instance
    regressionRef,   \* the coefficients held by regressionRef.current of each
    cursorTarget,    \* (targetX, targetY) of the last frame of each, 1/1000 unit
    framedApart,     \* history: the last frame was drawn with the instances holding different coefficients
    \* ---- a KalmanFilter instance driven on its own
    kf,              \* the instance: x, P, Q, R, initialized
    kfOut,           \* the value its last update returned
    kfCall,          \* history: its last update: the instance before the call and the measurement
    nUpdates,        \* history: updates since its construction
    \* ---- the yaw correction of onResults driven on its own
    eulerY,          \* euler.y of the Euler extraction, mrad
    fixedYaw,        \* fixedYaw computed from it
    \* ---- useMediaPipe
    mpIsTracking,    \* the isTracking argument of the last render
    mpCallback,      \* the identity of the onPositionUpdate argument of the last render
    mpEffectDeps,    \* the dependencies the effect last ran with
    mpTrackingRef,   \* isTrackingRef.current
    mpEyePos,        \* eyePosEMARef.current, 1/100 unit
    mpCameraOn,      \* the camera is delivering frames
    mpPending,       \* the result the detector owes for the frame sent to it
    mpLast,          \* history: the last camera frame and whether it was sent
    mpFrames,        \* history: camera frames delivered
    mpHandled        \* history: results handled by onResults

\* Bounds of the model.
MaxFrames == 3
ClockStep == 500

(***************************************************************************)
(* Arithmetic                                                              *)
(***************************************************************************)
Abs(a) == IF a < 0 THEN -a ELSE a

Sign(a) == IF a < 0 THEN -1 ELSE IF a > 0 THEN 1 ELSE 0

\* a / b rounded to the nearest integer, halves away from zero.
RDiv(a, b) ==
    LET q == (2 * Abs(a) + Abs(b)) \div (2 * Abs(b))
    IN  IF (a < 0) # (b < 0) THEN -q ELSE q

PI == 3142

\* Math.atan2(y, x) for x >= 0, in milliradians. For a ratio q = y/x in
\* [-1, 1], atan q = q (pi/4 + 0.273 (1 - |q|)) to within 4 mrad; beyond,
\* atan q = sign(q) pi/2 - atan(1/q).
AtanUnit(q) == RDiv(q * (785 + RDiv(273 * (1000 - Abs(q)), 1000)), 1000)

Atan2(y, x) ==
    IF x = 0 THEN Sign(y) * RDiv(PI, 2)
    ELSE IF Abs(y) <= x THEN AtanUnit(RDiv(y * 1000, x))
    ELSE Sign(y) * RDiv(PI, 2) - AtanUnit(RDiv(x * 1000, y))

(***************************************************************************)
(* OneEuroFilter (utils/OneEuroFilter is imported by the hook; the class   *)
(* is described in the design document, section 4.4).                      *)
(* An instance holds its parameters, fixed at construction, and its        *)
(* memory: previous output, previous derivative estimate, previous time.   *)
(* minCutoff and dCutoff in mHz, beta in 1/1000.                           *)
(***************************************************************************)
DCutoff == 1000

OneEuroFilter(mc, b) ==
    [minCutoff |-> mc, beta |-> b, initialized |-> FALSE,
     xPrev |-> 0, dxPrev |-> 0, tPrev |-> 0]

\* alpha = 1 / (1 + tau/dt), tau = 1 / (2 pi cutoff); result in 1/1000.
SmoothingFactor(cutoff, dt) ==
    LET r == RDiv(RDiv(6283 * cutoff, 1000) * dt, 1000)   \* 2 pi cutoff dt, 1/1000
    IN  RDiv(r * 1000, r + 1000)

ExpSmooth(a, x, prev) == prev + RDiv(a * (x - prev), 1000)

\* A filter whose first call smooths the input against its initial memory.
OneEuroFilterFilterUnseeded(f, x, t) ==
    IF t - f.tPrev <= 0 THEN [f EXCEPT !.initialized = TRUE]
    ELSE LET dt  == t - f.tPrev
             out == ExpSmooth(SmoothingFactor(f.minCutoff, dt), x, f.xPrev)
         IN  [f EXCEPT !.initialized = TRUE, !.xPrev = out, !.tPrev = t]

\* A filter without the guard on dt: a sample that comes with no time
\* elapsed replaces the output.
OneEuroFilterFilterUnguarded(f, x, t) ==
    IF ~f.initialized \/ t - f.tPrev <= 0
    THEN [f EXCEPT !.initialized = TRUE, !.xPrev = x, !.dxPrev = 0, !.tPrev = t]
    ELSE LET dt     == t - f.tPrev
             dx     == RDiv((x - f.xPrev) * 1000, dt)
             edx    == ExpSmooth(SmoothingFactor(DCutoff, dt), dx, f.dxPrev)
             cutoff == f.minCutoff + RDiv(f.beta * Abs(edx), 1000)
             out    == ExpSmooth(SmoothingFactor(cutoff, dt), x, f.xPrev)
         IN  [f EXCEPT !.xPrev = out, !.dxPrev = edx, !.tPrev = t]

\* filter(x, timestamp): the instance after the call; its xPrev is the value
\* returned.
OneEuroFilterFilter(f, x, t) ==
    IF ~f.initialized
    THEN [f EXCEPT !.initialized = TRUE, !.xPrev = x, !.dxPrev = 0, !.tPrev = t]
    ELSE IF t - f.tPrev <= 0 THEN f
    ELSE LET dt     == t - f.tPrev
             dx     == RDiv((x - f.xPrev) * 1000, dt)
             edx    == ExpSmooth(SmoothingFactor(DCutoff, dt), dx, f.dxPrev)
             cutoff == f.minCutoff + RDiv(f.beta * Abs(edx), 1000)
             out    == ExpSmooth(SmoothingFactor(cutoff, dt), x, f.xPrev)
         IN  [f EXCEPT !.xPrev = out, !.dxPrev = edx, !.tPrev = t]

(***************************************************************************)
(* KalmanFilter (utils/KalmanFilter.ts). Matrices are tuples of rows.      *)
(* State and covariance in 1/1000.                                         *)
(***************************************************************************)
One == 1000

\* sum over k <= n of a[k] * b[k]
RECURSIVE DotTo(_, _, _)
DotTo(a, b, n) == IF n = 0 THEN 0 ELSE DotTo(a, b, n - 1) + a[n] * b[n]

\* Arrays are built as tuples, element by element.
Row(f) == f \o <<>>

eye(n, scale) == Row([i \in 1..n |-> Row([j \in 1..n |-> IF i = j THEN scale ELSE 0])])

multiplyMatrixVector(A, v) ==
    Row([i \in 1..Len(A) |-> RDiv(DotTo(A[i], v, Len(v)), One)])

transposeTest(A) == Row([c \in 1..Len(A[1]) |-> Row([r \in 1..Len(A) |-> A[r][c]])])

multiplyMatrices(A, B) ==
    LET Bt == transposeTest(B)
    IN  Row([i \in 1..Len(A) |-> Row([j \in 1..Len(Bt) |->
            RDiv(DotTo(A[i], Bt[j], Len(B)), One)])])

addMatrices(A, B) ==
    Row([i \in 1..Len(A) |-> Row([j \in 1..Len(A[1]) |-> A[i][j] + B[i][j]])])

subtractMatrices(A, B) ==
    Row([i \in 1..Len(A) |-> Row([j \in 1..Len(A[1]) |-> A[i][j] - B[i][j]])])

\* 1e-6 is below the resolution: the smallest positive value stands for it.
DetEpsilon == 1

\* An inversion that answers a singular matrix with the identity.
invert2x2Identity(M) ==
    LET det == RDiv(M[1][1] * M[2][2] - M[1][2] * M[2][1], One)
    IN  IF Abs(det) < DetEpsilon THEN eye(2, One)
        ELSE <<<<RDiv(M[2][2] * One, det), RDiv(-M[1][2] * One, det)>>,
               <<RDiv(-M[2][1] * One, det), RDiv(M[1][1] * One, det)>>>>

invert2x2(M) ==
    LET det == RDiv(M[1][1] * M[2][2] - M[1][2] * M[2][1], One)
    IN  IF Abs(det) < DetEpsilon THEN <<<<0, 0>>, <<0, 0>>>>
        ELSE <<<<RDiv(M[2][2] * One, det), RDiv(-M[1][2] * One, det)>>,
               <<RDiv(-M[2][1] * One, det), RDiv(M[1][1] * One, det)>>>>

KalmanF == <<<<One, 0, One, 0>>, <<0, One, 0, One>>, <<0, 0, One, 0>>, <<0, 0, 0, One>>>>

KalmanH == <<<<One, 0, 0, 0>>, <<0, One, 0, 0>>>>

KalmanFilter(processNoise, measurementNoise) ==
    [x |-> <<0, 0, 0, 0>>, P |-> eye(4, One), Q |-> eye(4, processNoise),
     R |-> eye(2, measurementNoise), initialized |-> FALSE]

\* The predict step of update (lines 68-76).
KalmanPredict(k) ==
    [k EXCEPT !.x = multiplyMatrixVector(KalmanF, k.x),
              !.P = addMatrices(multiplyMatrices(multiplyMatrices(KalmanF, k.P),
                                                 transposeTest(KalmanF)), k.Q)]

\* The correct step of update (lines 79-109).
KalmanCorrect(k, mx, my) ==
    LET Hx   == multiplyMatrixVector(KalmanH, k.x)
        y    == <<mx - Hx[1], my - Hx[2]>>
        HT   == transposeTest(KalmanH)
        S    == addMatrices(multiplyMatrices(multiplyMatrices(KalmanH, k.P), HT), k.R)
        Si   == invert2x2(S)
        K    == multiplyMatrices(multiplyMatrices(k.P, HT), Si)
        Ky   == multiplyMatrixVector(K, y)
        I_KH == subtractMatrices(eye(4, One), multiplyMatrices(K, KalmanH))
    IN  [k EXCEPT !.x = Row([i \in 1..4 |-> k.x[i] + Ky[i]]),
                  !.P = multiplyMatrices(I_KH, k.P)]

\* An update that filters from the first measurement on.
KalmanUpdateFromZero(k, mx, my) ==
    [KalmanCorrect(KalmanPredict(k), mx, my) EXCEPT !.initialized = TRUE]

\* update(mx, my): the instance after the call; the value returned is
\* (x[1], x[2]) of it.
KalmanUpdate(k, mx, my) ==
    IF ~k.initialized
    THEN [k EXCEPT !.x = <<mx, my, 0, 0>>, !.initialized = TRUE]
    ELSE KalmanCorrect(KalmanPredict(k), mx, my)

(***************************************************************************)
(* useHeadTracking (src/unnamed/part_000, lines 337-684)                   *)
(***************************************************************************)
SUBJECT_RIGHT_EYE == <<33, 160, 158, 133, 153, 144>>

SUBJECT_LEFT_EYE == <<362, 385, 387, 263, 373, 380>>

MinLandmarks == 478

V_WIDTH == 640

V_HEIGHT == 480

BlinkThreshold == 180

EyeGainYaw == 5

EyeGainPitch == -5

EyePosScale == 5

\* The values an EAR takes besides the finite ones (a division by h = 0).
EARInfinity == -1

EARNaN == -2

\* A detector result, reduced to what onResults reads of it:
\*   faces          multiFaceLandmarks.length
\*   len            multiFaceLandmarks[0].length
\*   rightEye, leftEye   the distances v1, v2, h of calculateEAR (1/1000)
\*   euler          Euler 'YXZ' of the face basis (lines 512-530), mrad
\*   offsetR, offsetL    iris minus inner-corner anchor, pixel space (1/1000 px)
\*   eyeScaleNorm   computeEyeScale(landmarks) (1/1000000)
\*   nose           landmarksPx[1] (px)
NoFaceResult ==
    [faces |-> 0, len |-> 0,
     rightEye |-> [v1 |-> 0, v2 |-> 0, h |-> 0], leftEye |-> [v1 |-> 0, v2 |-> 0, h |-> 0],
     euler |-> [x |-> 0, y |-> 0, z |-> 0],
     offsetR |-> [x |-> 0, y |-> 0], offsetL |-> [x |-> 0, y |-> 0],
     eyeScaleNorm |-> 0, nose |-> [x |-> 0, y |-> 0]]

\* Eyes open (EAR 0.3), head turned, irises off their anchors.
FaceOpen ==
    [faces |-> 1, len |-> 478,
     rightEye |-> [v1 |-> 30, v2 |-> 30, h |-> 100], leftEye |-> [v1 |-> 30, v2 |-> 30, h |-> 100],
     euler |-> [x |-> 100, y |-> 3000, z |-> -50],
     offsetR |-> [x |-> 12000, y |-> 3000], offsetL |-> [x |-> 10000, y |-> 3000],
     eyeScaleNorm |-> 150000, nose |-> [x |-> 340, y |-> 250]]

\* Eyes closed (EAR 0.1), another pose.
FaceBlink ==
    [faces |-> 1, len |-> 478,
     rightEye |-> [v1 |-> 10, v2 |-> 10, h |-> 100], leftEye |-> [v1 |-> 10, v2 |-> 10, h |-> 100],
     euler |-> [x |-> -200, y |-> -3000, z |-> 80],
     offsetR |-> [x |-> -8000, y |-> 2000], offsetL |-> [x |-> -6000, y |-> 4000],
     eyeScaleNorm |-> 150000, nose |-> [x |-> 300, y |-> 230]]

\* A face without the iris landmarks, and one cut off before the eye contour.
FaceNoIris == [FaceOpen EXCEPT !.len = 468]

FaceTruncated == [FaceOpen EXCEPT !.len = 100]

Results == {NoFaceResult, FaceOpen, FaceBlink, FaceNoIris, FaceTruncated}

\* The corners of the right eye coincide (h = 0), lids apart.
FaceCornersMet == [FaceOpen EXCEPT !.rightEye = [v1 |-> 30, v2 |-> 30, h |-> 0]]

\* All six points of each eye coincide.
FaceEyesCollapsed ==
    [FaceOpen EXCEPT !.rightEye = [v1 |-> 0, v2 |-> 0, h |-> 0],
                     !.leftEye = [v1 |-> 0, v2 |-> 0, h |-> 0]]

\* EAR 0.20 and 0.16: the average is exactly 0.18.
FaceAtThreshold ==
    [FaceOpen EXCEPT !.leftEye = [v1 |-> 20, v2 |-> 20, h |-> 100],
                     !.rightEye = [v1 |-> 16, v2 |-> 16, h |-> 100]]

\* EAR 0.20 and 0.158: the average is 0.179.
FaceBelowThreshold ==
    [FaceOpen EXCEPT !.leftEye = [v1 |-> 20, v2 |-> 20, h |-> 100],
                     !.rightEye = [v1 |-> 79, v2 |-> 79, h |-> 500]]

EyeResults == {FaceOpen, FaceBlink, FaceCornersMet, FaceEyesCollapsed, FaceAtThreshold, FaceBelowThreshold}

NoResult == [faces |-> -1]

\* landmarks[i].x for an i beyond the array: TypeError (line 325).
IndexError(len, indices) == \E k \in 1..Len(indices) : indices[k] >= len

\* calculateEAR on the distances of one eye (lines 327-334).
calculateEAR(d) ==
    IF d.h = 0 THEN (IF d.v1 + d.v2 = 0 THEN EARNaN ELSE EARInfinity)
    ELSE RDiv((d.v1 + d.v2) * 1000, 2 * d.h)

\* (leftEAR + rightEAR) / 2 (line 491).
AverageEAR(l, r) ==
    IF l = EARNaN \/ r = EARNaN THEN EARNaN
    ELSE IF l = EARInfinity \/ r = EARInfinity THEN EARInfinity
    ELSE RDiv(l + r, 2)

\* A classifier that never sees a blink.
IsBlinkingNever(avgEAR) == FALSE

\* A classifier that takes the threshold itself for a blink.
IsBlinkingInclusive(avgEAR) == avgEAR # EARNaN /\ avgEAR # EARInfinity /\ avgEAR <= BlinkThreshold

\* avgEAR < 0.18 (line 493); comparisons with NaN and with Infinity are false.
IsBlinking(avgEAR) == avgEAR # EARNaN /\ avgEAR # EARInfinity /\ avgEAR < BlinkThreshold

\* A yaw correction without the wrap.
FixYawUnwrapped(rawYaw) == -(rawYaw - PI)

\* Yaw correction (lines 533-536).
FixYaw(rawYaw) ==
    LET a == rawYaw - PI
        b == IF a < -PI THEN a + 2 * PI ELSE a
        c == IF b > PI THEN b - 2 * PI ELSE b
    IN  -c

RawRotation(f) == [yaw |-> FixYaw(f.euler.y), pitch |-> f.euler.x, roll |-> f.euler.z]

\* A recenter that forgets to clear the request.
RecenterKeepsFlag(flag, offset, raw) ==
    IF flag THEN [offset |-> raw, flag |-> TRUE] ELSE [offset |-> offset, flag |-> flag]

\* 4. Recenter (lines 584-587): the offset and the flag after the step.
Recenter(flag, offset, raw) ==
    IF flag THEN [offset |-> raw, flag |-> FALSE] ELSE [offset |-> offset, flag |-> flag]

\* Eye angle from an averaged normalized offset (lines 578-581).
EyeAngle(avgOffset, eyeScaleNorm) == Atan2(avgOffset, RDiv(eyeScaleNorm * 4, 10))

\* 6. Fusion (lines 599-613): the eye component added to the filtered head angle.
EyeComponent(mode, eyeAngle, gain) == IF mode = "iris" THEN eyeAngle * gain ELSE 0

\* A rotation published with yaw and roll in each other's place.
PublishedRotationMixed(finalYaw, finalPitch, fRoll) ==
    [yaw |-> fRoll, pitch |-> finalPitch, roll |-> finalYaw]

\* The argument of setRotation (line 616).
PublishedRotation(finalYaw, finalPitch, fRoll) ==
    [yaw |-> finalYaw, pitch |-> finalPitch, roll |-> fRoll]

\* A send that ignores the tracking flag.
SendsFrameAlways(trackingRef) == TRUE

\* onFrame's test before faceMesh.send (line 468); videoRef is attached.
SendsFrame(trackingRef) == trackingRef

\* The FPS readout at the end of onFrame (lines 471-477).
FpsCount(count, last, t, shown) ==
    IF t - last >= 1000
    THEN [frameCount |-> 0, lastTime |-> t, fps |-> count + 1]
    ELSE [frameCount |-> count + 1, lastTime |-> last, fps |-> shown]

InitMinCutoff == 10

InitBeta == 1

FilterMinCutoff == 100

FilterBeta == 5000

KalmanQ == 10

KalmanR == 100

\* The values the sliders of the settings panel are moved to.
MinCutoffValues == {InitMinCutoff, 1000}

BetaValues == {InitBeta, 10}

\* The published state, with the history of blink.
outputs == <<eyePos, rotation, blink, iris, gaze, wasBlinking>>

filters == <<filterYaw, filterPitch, filterRoll, kalmanRight, kalmanLeft, lastEyePosRef>>

tare == <<rotationOffsetRef, recenterNextFrameRef>>

fpsVars == <<frameCountRef, lastTimeRef, fps>>

settings == <<isTracking, isTrackingRef, trackingMode, minCutoff, beta, configRef>>

setup == <<isMediaPipeReady, isInitializedRef, onResultsMode>>

detector == <<pending, lastOutcome, heldOver, uncaught, now, nFrames>>

hookVars == <<outputs, filters, tare, fpsVars, settings, setup, detector>>

legacyVars == <<legacyEyePos, eyePosEMARef, alpha, alphaRef, noFaceRun, nFaces>>

regressionVars == <<coefficientsX, coefficientsY, lastCall>>

overlayVars == <<step, samples, countdown, currentSamplesRef, closureGaze, timerActive, stepTimeout>>

pageVars == <<calPhase, committedModel>>

gazeVars == <<gazeProp, gazeLive, fresh, nNaN>>

sessionLog == <<recorded, nFit, nComplete, nCancel>>

calibrationVars == <<overlayVars, pageVars, gazeVars, sessionLog, received>>

controllerVars == <<props, windowAspect, calibration, regressionRef, cursorTarget, framedApart>>

kalmanVars == <<kf, kfOut, kfCall, nUpdates>>

yawVars == <<eulerY, fixedYaw>>

mediaPipeVars == <<mpIsTracking, mpCallback, mpEffectDeps, mpTrackingRef, mpEyePos,
                   mpCameraOn, mpPending, mpLast, mpFrames, mpHandled>>

besidesHook == <<legacyVars, regressionVars, calibrationVars, controllerVars, kalmanVars, yawVars, mediaPipeVars>>

\* The hook after its first render and mount effects (lines 341-399).
HookInit ==
    /\ isTracking = TRUE /\ trackingMode = "head"
    /\ minCutoff = InitMinCutoff /\ beta = InitBeta
    /\ isMediaPipeReady = FALSE /\ isInitializedRef = FALSE
    /\ eyePos = [x |-> 0, y |-> 0, z |-> 800]
    /\ rotation = [yaw |-> 0, pitch |-> 0, roll |-> 0]
    /\ blink = [isBlinking |-> FALSE, blinkStrength |-> 0, leftEAR |-> 0, rightEAR |-> 0]
    /\ wasBlinking = FALSE
    /\ iris = [x |-> 0, y |-> 0]
    /\ gaze = [yaw |-> 0, pitch |-> 0]
    /\ fps = 0 /\ frameCountRef = 0 /\ lastTimeRef = 0
    /\ isTrackingRef = TRUE
    /\ configRef = [minCutoff |-> InitMinCutoff, beta |-> InitBeta]
    /\ filterYaw = OneEuroFilter(FilterMinCutoff, FilterBeta)
    /\ filterPitch = OneEuroFilter(FilterMinCutoff, FilterBeta)
    /\ filterRoll = OneEuroFilter(FilterMinCutoff, FilterBeta)
    /\ kalmanRight = KalmanFilter(KalmanQ, KalmanR)
    /\ kalmanLeft = KalmanFilter(KalmanQ, KalmanR)
    /\ lastEyePosRef = [rX |-> 0, rY |-> 0, lX |-> 0, lY |-> 0]
    /\ rotationOffsetRef = [yaw |-> 0, pitch |-> 0, roll |-> 0]
    /\ recenterNextFrameRef = FALSE
    /\ onResultsMode = "head"
    /\ pending = NoResult /\ uncaught = FALSE
    /\ lastOutcome = "none" /\ heldOver = FALSE
    /\ now = 0 /\ nFrames = 0

\* checkMediaPipe finds the libraries (lines 431-440); the render it causes runs
\* the init effect (lines 444-645), which builds onFrame and onResults once:
\* onResults closes over the trackingMode of that render.
CheckMediaPipe ==
    /\ UNCHANGED besidesHook
    /\ ~isMediaPipeReady
    /\ isMediaPipeReady' = TRUE
    /\ isInitializedRef' = TRUE
    /\ onResultsMode' = trackingMode
    /\ UNCHANGED <<outputs, filters, tare, fpsVars, settings, detector>>

\* The pause/play button: setIsTracking(!isTracking).
ToggleTracking ==
    /\ UNCHANGED besidesHook
    /\ isTracking' = ~isTracking
    /\ UNCHANGED <<isTrackingRef, trackingMode, minCutoff, beta, configRef>>
    /\ UNCHANGED <<outputs, filters, tare, fpsVars, setup, detector>>

\* The effect of lines 391-393.
TrackingEffect ==
    /\ UNCHANGED besidesHook
    /\ isTrackingRef # isTracking
    /\ isTrackingRef' = isTracking
    /\ UNCHANGED <<isTracking, trackingMode, minCutoff, beta, configRef>>
    /\ UNCHANGED <<outputs, filters, tare, fpsVars, setup, detector>>

SetTrackingMode(mode) ==
    /\ UNCHANGED besidesHook
    /\ mode # trackingMode
    /\ trackingMode' = mode
    /\ UNCHANGED <<isTracking, isTrackingRef, minCutoff, beta, configRef>>
    /\ UNCHANGED <<outputs, filters, tare, fpsVars, setup, detector>>

SetMinCutoff(val) ==
    /\ UNCHANGED besidesHook
    /\ val # minCutoff
    /\ minCutoff' = val
    /\ UNCHANGED <<isTracking, isTrackingRef, trackingMode, beta, configRef>>
    /\ UNCHANGED <<outputs, filters, tare, fpsVars, setup, detector>>

SetBeta(val) ==
    /\ UNCHANGED besidesHook
    /\ val # beta
    /\ beta' = val
    /\ UNCHANGED <<isTracking, isTrackingRef, trackingMode, minCutoff, configRef>>
    /\ UNCHANGED <<outputs, filters, tare, fpsVars, setup, detector>>

\* The effect of lines 387-389.
ConfigEffect ==
    /\ UNCHANGED besidesHook
    /\ configRef # [minCutoff |-> minCutoff, beta |-> beta]
    /\ configRef' = [minCutoff |-> minCutoff, beta |-> beta]
    /\ UNCHANGED <<isTracking, isTrackingRef, trackingMode, minCutoff, beta>>
    /\ UNCHANGED <<outputs, filters, tare, fpsVars, setup, detector>>

\* A resetPosition that tares to the published rotation at once.
ResetPositionAtOnce ==
    /\ UNCHANGED besidesHook
    /\ rotationOffsetRef' = rotation
    /\ recenterNextFrameRef' = TRUE
    /\ heldOver' = (recenterNextFrameRef /\ heldOver)
    /\ UNCHANGED <<pending, lastOutcome, uncaught, now, nFrames>>
    /\ UNCHANGED <<outputs, filters, fpsVars, settings, setup>>

\* resetPosition (lines 647-649).
ResetPosition ==
    /\ UNCHANGED besidesHook
    /\ recenterNextFrameRef' = TRUE
    /\ heldOver' = (recenterNextFrameRef /\ heldOver)
    /\ UNCHANGED rotationOffsetRef
    /\ UNCHANGED <<pending, lastOutcome, uncaught, now, nFrames>>
    /\ UNCHANGED <<outputs, filters, fpsVars, settings, setup>>

\* The end of onFrame: the FPS readout.
FpsTail ==
    LET c == FpsCount(frameCountRef, lastTimeRef, now', fps)
    IN  /\ frameCountRef' = c.frameCount
        /\ lastTimeRef' = c.lastTime
        /\ fps' = c.fps

\* The camera delivers a frame, elapsed ms after the previous one (lines
\* 467-478). With tracking on, the frame goes to the detector, which owes a
\* result: onFrame waits for it. Otherwise onFrame ends with the FPS readout.
OnFrame(elapsed, result) ==
    /\ UNCHANGED besidesHook
    /\ isInitializedRef /\ pending = NoResult /\ nFrames < MaxFrames
    /\ nFrames' = nFrames + 1
    /\ now' = now + elapsed
    /\ IF SendsFrame(isTrackingRef)
       THEN /\ pending' = result
            /\ UNCHANGED <<fpsVars, lastOutcome>>
       ELSE /\ pending' = pending
            /\ lastOutcome' = "skipped"
            /\ FpsTail
    /\ UNCHANGED <<heldOver, uncaught>>
    /\ UNCHANGED <<outputs, filters, tare, settings, setup>>

\* The body of onResults for a face with all its landmarks (lines 506-627).
ProcessFace(f, rightEAR, leftEAR) ==
    LET avgEAR     == AverageEAR(leftEAR, rightEAR)
        isBlinking == IsBlinking(avgEAR)
        raw        == RawRotation(f)
        kR         == IF isBlinking THEN kalmanRight
                      ELSE KalmanUpdate(kalmanRight, f.offsetR.x, f.offsetR.y)
        kL         == IF isBlinking THEN kalmanLeft
                      ELSE KalmanUpdate(kalmanLeft, f.offsetL.x, f.offsetL.y)
        held       == IF isBlinking THEN lastEyePosRef
                      ELSE [rX |-> kR.x[1], rY |-> kR.x[2], lX |-> kL.x[1], lY |-> kL.x[2]]
        avgOffsetX == RDiv(RDiv(held.rX * 1000, V_WIDTH) + RDiv(held.lX * 1000, V_WIDTH), 2)
        avgOffsetY == RDiv(RDiv(held.rY * 1000, V_HEIGHT) + RDiv(held.lY * 1000, V_HEIGHT), 2)
        eyeYaw     == EyeAngle(avgOffsetX, f.eyeScaleNorm)
        eyePitch   == EyeAngle(avgOffsetY, f.eyeScaleNorm)
        rec        == Recenter(recenterNextFrameRef, rotationOffsetRef, raw)
        fYaw       == OneEuroFilterFilter(filterYaw, raw.yaw - rec.offset.yaw, now)
        fPitch     == OneEuroFilterFilter(filterPitch, raw.pitch - rec.offset.pitch, now)
        fRoll      == OneEuroFilterFilter(filterRoll, raw.roll - rec.offset.roll, now)
        finalYaw   == fYaw.xPrev + EyeComponent(onResultsMode, eyeYaw, EyeGainYaw)
        finalPitch == fPitch.xPrev + EyeComponent(onResultsMode, eyePitch, EyeGainPitch)
    IN  /\ kalmanRight' = kR /\ kalmanLeft' = kL /\ lastEyePosRef' = held
        /\ rotationOffsetRef' = rec.offset /\ recenterNextFrameRef' = rec.flag
        /\ filterYaw' = fYaw /\ filterPitch' = fPitch /\ filterRoll' = fRoll
        /\ blink' = [isBlinking |-> isBlinking, blinkStrength |-> avgEAR,
                     leftEAR |-> leftEAR, rightEAR |-> rightEAR]
        /\ wasBlinking' = blink.isBlinking
        /\ rotation' = PublishedRotation(finalYaw, finalPitch, fRoll.xPrev)
        /\ iris' = [x |-> avgOffsetX, y |-> avgOffsetY]
        /\ gaze' = [yaw |-> finalYaw, pitch |-> finalPitch]
        /\ eyePos' = [x |-> (f.nose.x - 320) * EyePosScale,
                      y |-> (f.nose.y - 240) * EyePosScale, z |-> 800]

\* The detector delivers the result of the frame sent to it: onResults (lines
\* 483-630) runs, send resolves and onFrame ends with the FPS readout. An
\* exception leaves onResults; whether the detector passes it on to onFrame
\* through send, which then skips the readout, is the library's choice.
OnResults ==
    /\ UNCHANGED besidesHook
    /\ pending # NoResult
    /\ pending' = NoResult
    /\ UNCHANGED <<now, nFrames, settings, setup>>
    /\ heldOver' = IF pending.faces > 0 /\ pending.len >= MinLandmarks THEN heldOver
                   ELSE (heldOver \/ recenterNextFrameRef)
    /\ IF pending.faces = 0
       THEN /\ lastOutcome' = "noface"
            /\ FpsTail
            /\ UNCHANGED <<uncaught, outputs, filters, tare>>
       ELSE IF IndexError(pending.len, SUBJECT_RIGHT_EYE) \/ IndexError(pending.len, SUBJECT_LEFT_EYE)
       THEN /\ lastOutcome' = "threw"
            /\ uncaught' = TRUE
            /\ UNCHANGED <<outputs, filters, tare>>
            /\ (UNCHANGED fpsVars \/ FpsTail)
       ELSE IF pending.len < MinLandmarks
       THEN /\ lastOutcome' = "dropped"
            /\ FpsTail
            /\ UNCHANGED <<uncaught, outputs, filters, tare>>
       ELSE /\ lastOutcome' = "processed"
            /\ ProcessFace(pending, calculateEAR(pending.rightEye), calculateEAR(pending.leftEye))
            /\ FpsTail
            /\ UNCHANGED uncaught

\* The hook driven by the camera, the detector and the buttons of the page
\* (pause/play, recenter, tracking mode). The sliders are left alone: they
\* write minCutoff, beta and configRef only, which no action here reads.
HookNext ==
    \/ CheckMediaPipe
    \/ ToggleTracking
    \/ TrackingEffect
    \/ \E mode \in {"head", "iris"} : SetTrackingMode(mode)
    \/ ResetPosition
    \/ \E result \in Results : OnFrame(ClockStep, result)
    \/ OnResults

\* The hook driven by the camera, the detector and the sliders of the
\* settings panel; frames may follow each other within the same millisecond.
TuningNext ==
    \/ CheckMediaPipe
    \/ \E val \in MinCutoffValues : SetMinCutoff(val)
    \/ \E val \in BetaValues : SetBeta(val)
    \/ ConfigEffect
    \/ \E elapsed \in {0, ClockStep}, result \in {FaceOpen, FaceBlink} : OnFrame(elapsed, result)
    \/ OnResults

\* The hook driven by the camera and the detector alone, on faces whose eyes
\* are degenerate or at the blink threshold.
EyesNext ==
    \/ CheckMediaPipe
    \/ \E result \in EyeResults : OnFrame(ClockStep, result)
    \/ OnResults

(***************************************************************************)
(* The EMA position tracker of the legacy useHeadTracking hook             *)
(* (src/unnamed/part_000, lines 718-921). Positions in 1/100 unit, alpha   *)
(* and sensitivity in 1/1000.                                              *)
(***************************************************************************)
\* Bounds of the position model.
MaxFaces == 1
NoFaceFrames == 50

Max(a, b) == IF a >= b THEN a ELSE b

Neutral == [x |-> 0, y |-> 0, z |-> 80000]

InitAlpha == 800

Sensitivity == 3000

\* What onResults derives from the six landmarks it reads: their mean, in
\* pixels, and the spread of their x coordinates.
LegacyFaces ==
    { [avgX |-> 520, avgY |-> 400, faceWidth |-> 100],
      [avgX |-> 120, avgY |->  80, faceWidth |-> 400],
      [avgX |-> 320, avgY |-> 230, faceWidth |-> 600],
      [avgX |-> 323, avgY |-> 232, faceWidth |-> 125] }

\* The positions of the alpha slider the model moves it to (min 0.05, max 1).
AlphaValues == {50, InitAlpha, 1000}

\* A currentPos whose z is not held at 450 or above.
CurrentPosUnclamped(f, sens) ==
    [x |-> RDiv((f.avgX - 320) * sens, 10),
     y |-> RDiv((f.avgY - 240) * sens, 10) + 3000,
     z |-> 70000 + (250 - f.faceWidth) * 80]

\* currentPos (lines 839-849).
CurrentPos(f, sens) ==
    [x |-> RDiv((f.avgX - 320) * sens, 10),
     y |-> RDiv((f.avgY - 240) * sens, 10) + 3000,
     z |-> Max(45000, 70000 + (250 - f.faceWidth) * 80)]

\* a * cur + (1 - a) * prev (lines 852-856).
Ema(a, cur, prev) == RDiv(a * cur + (1000 - a) * prev, 1000)

\* A drift of twice the weight.
DriftTwice(n, v) == RDiv(10 * n + 90 * v, 100)

\* 0.05 * neutral + 0.95 * prev (lines 860-864).
Drift(n, v) == RDiv(5 * n + 95 * v, 100)

LegacyInit ==
    /\ legacyEyePos = Neutral /\ eyePosEMARef = Neutral
    /\ alpha = InitAlpha /\ alphaRef = InitAlpha
    /\ noFaceRun = 0 /\ nFaces = 0

besidesLegacy == <<hookVars, regressionVars, calibrationVars, controllerVars, kalmanVars, yawVars, mediaPipeVars>>

\* The alpha slider: setAlpha(val).
LegacySetAlpha(val) ==
    /\ val # alpha
    /\ alpha' = val
    /\ UNCHANGED <<legacyEyePos, eyePosEMARef, alphaRef, noFaceRun, nFaces>>
    /\ UNCHANGED besidesLegacy

\* The effect of lines 745-747.
LegacyAlphaEffect ==
    /\ alphaRef # alpha
    /\ alphaRef' = alpha
    /\ UNCHANGED <<legacyEyePos, eyePosEMARef, alpha, noFaceRun, nFaces>>
    /\ UNCHANGED besidesLegacy

\* onResults with a face (lines 828-856, 868).
LegacyFace(f) ==
    /\ nFaces < MaxFaces
    /\ LET cur == CurrentPos(f, Sensitivity)
           pos == [x |-> Ema(alphaRef, cur.x, eyePosEMARef.x),
                   y |-> Ema(alphaRef, cur.y, eyePosEMARef.y),
                   z |-> Ema(alphaRef, cur.z, eyePosEMARef.z)]
       IN  eyePosEMARef' = pos /\ legacyEyePos' = pos
    /\ nFaces' = nFaces + 1
    /\ noFaceRun' = 0
    /\ UNCHANGED <<alpha, alphaRef>>
    /\ UNCHANGED besidesLegacy

\* onResults without a face (lines 857-868).
LegacyNoFace ==
    /\ noFaceRun < NoFaceFrames
    /\ LET pos == [x |-> Drift(Neutral.x, eyePosEMARef.x),
                   y |-> Drift(Neutral.y, eyePosEMARef.y),
                   z |-> Drift(Neutral.z, eyePosEMARef.z)]
       IN  eyePosEMARef' = pos /\ legacyEyePos' = pos
    /\ noFaceRun' = noFaceRun + 1
    /\ UNCHANGED <<alpha, alphaRef, nFaces>>
    /\ UNCHANGED besidesLegacy

\* resetPosition (lines 900-903).
LegacyResetPosition ==
    /\ eyePosEMARef' = Neutral /\ legacyEyePos' = Neutral
    /\ UNCHANGED <<alpha, alphaRef, noFaceRun, nFaces>>
    /\ UNCHANGED besidesLegacy

LegacyNext ==
    \/ \E val \in AlphaValues : LegacySetAlpha(val)
    \/ LegacyAlphaEffect
    \/ \E f \in LegacyFaces : LegacyFace(f)
    \/ LegacyNoFace
    \/ LegacyResetPosition

(***************************************************************************)
(* PolynomialRegression (src/client/src/utils/RegressionUtils.ts).         *)
(* A number is an exact rational <<numerator, denominator>>, in lowest     *)
(* terms with a positive denominator; <<0, 0>> is NaN. A matrix is a       *)
(* tuple of rows.                                                          *)
(***************************************************************************)
NaNRat == <<0, 0>>

IsNaN(a) == a[2] = 0

RECURSIVE Gcd(_, _)
Gcd(a, b) == IF b = 0 THEN a ELSE Gcd(b, a % b)

Rat(n, d) ==
    IF d = 0 THEN NaNRat
    ELSE LET g == Gcd(Abs(n), Abs(d))
         IN  IF d < 0 THEN <<(-n) \div g, (-d) \div g>> ELSE <<n \div g, d \div g>>

Whole(n) == <<n, 1>>

\* Sums and products are reduced before they are formed, so that the
\* intermediate numbers stay small.
RatAdd(a, b) ==
    IF IsNaN(a) \/ IsNaN(b) THEN NaNRat
    ELSE LET g == Gcd(a[2], b[2])
         IN  Rat(a[1] * (b[2] \div g) + b[1] * (a[2] \div g), (a[2] \div g) * b[2])

RatNeg(a) == <<-a[1], a[2]>>

RatSub(a, b) == RatAdd(a, RatNeg(b))

RatMul(a, b) ==
    IF IsNaN(a) \/ IsNaN(b) THEN NaNRat
    ELSE LET g == Gcd(Abs(a[1]), b[2])
             h == Gcd(Abs(b[1]), a[2])
         IN  Rat((a[1] \div g) * (b[1] \div h), (a[2] \div h) * (b[2] \div g))

\* a / b; the code divides by a pivot only, which is never 0 (line 124).
RatQuot(a, b) ==
    IF IsNaN(a) \/ IsNaN(b) \/ b[1] = 0 THEN NaNRat
    ELSE RatMul(a, IF b[1] < 0 THEN <<-b[2], -b[1]>> ELSE <<b[2], b[1]>>)

\* Math.abs(a) > Math.abs(b): false when either is NaN.
AbsGreater(a, b) ==
    ~IsNaN(a) /\ ~IsNaN(b) /\ Abs(a[1]) * b[2] > Abs(b[1]) * a[2]

\* Math.abs(pivot) < 1e-10 (line 124): false for NaN. A rational of this
\* model that is not 0 is at least 1 / 2^31 in magnitude, above 1e-10.
BelowEpsilon(pivot) == ~IsNaN(pivot) /\ pivot[1] = 0

RECURSIVE RatDotTo(_, _, _)
RatDotTo(a, b, n) ==
    IF n = 0 THEN Whole(0) ELSE RatAdd(RatDotTo(a, b, n - 1), RatMul(a[n], b[n]))

Column(B, j) == Row([k \in 1..Len(B) |-> B[k][j]])

\* multiply (lines 93-102), for matrices whose sizes match.
multiply(A, B) ==
    Row([i \in 1..Len(A) |->
        LET a == A[i]
        IN  Row([j \in 1..Len(B[1]) |-> RatDotTo(a, Column(B, j), Len(a))])])

\* transpose (lines 104-106).
transpose(A) == Row([c \in 1..Len(A[1]) |-> Column(A, c)])

\* [M | I] (line 112).
Augment(M) ==
    Row([i \in 1..Len(M) |->
        M[i] \o Row([j \in 1..Len(M) |-> IF i = j THEN Whole(1) ELSE Whole(0)])])

\* The pivot search of lines 116-119, from row j on.
RECURSIVE PivotRowFrom(_, _, _, _)
PivotRowFrom(A, i, j, pivotRow) ==
    IF j > Len(A) THEN pivotRow
    ELSE PivotRowFrom(A, i, j + 1, IF AbsGreater(A[j][i], A[pivotRow][i]) THEN j ELSE pivotRow)

Swap(A, i, p) ==
    Row([r \in 1..Len(A) |-> IF r = i THEN A[p] ELSE IF r = p THEN A[i] ELSE A[r]])

\* An elimination that clears the column below the pivot only.
EliminateBelow(A, i) ==
    LET pivot == A[i][i]
        rowI  == Row([j \in 1..Len(A[i]) |->
                     IF j >= i THEN RatQuot(A[i][j], pivot) ELSE A[i][j]])
    IN  Row([k \in 1..Len(A) |->
            IF k = i THEN rowI
            ELSE IF k < i THEN A[k]
            ELSE LET factor == A[k][i]
                     rowK   == A[k]
                 IN  Row([j \in 1..Len(rowK) |->
                         IF j >= i THEN RatSub(rowK[j], RatMul(factor, rowI[j]))
                         ELSE rowK[j]])])

\* Lines 126-135 for column i, the pivot row in place.
Eliminate(A, i) ==
    LET pivot == A[i][i]
        rowI  == Row([j \in 1..Len(A[i]) |->
                     IF j >= i THEN RatQuot(A[i][j], pivot) ELSE A[i][j]])
    IN  Row([k \in 1..Len(A) |->
            IF k = i THEN rowI
            ELSE LET factor == A[k][i]
                     rowK   == A[k]
                 IN  Row([j \in 1..Len(rowK) |->
                         IF j >= i THEN RatSub(rowK[j], RatMul(factor, rowI[j]))
                         ELSE rowK[j]])])

\* The loop of invert from column i on (lines 114-139): the inverse, or
\* singular when a pivot is below the epsilon (the code throws).
RECURSIVE InvertFrom(_, _)
InvertFrom(A, i) ==
    IF i > Len(A)
    THEN [singular |-> FALSE,
          inverse  |-> Row([r \in 1..Len(A) |-> SubSeq(A[r], Len(A) + 1, 2 * Len(A))])]
    ELSE LET S == Swap(A, i, PivotRowFrom(A, i, i + 1, i))
         IN  IF BelowEpsilon(S[i][i]) THEN [singular |-> TRUE, inverse |-> <<>>]
             ELSE InvertFrom(Eliminate(S, i), i + 1)

invert(M) == InvertFrom(Augment(M), 1)

\* No coefficient vector (null).
Null == <<>>

MinPoints == 6

\* One row of the design matrix (line 37).
Basis(x, y) == <<x, y, RatMul(x, y), RatMul(x, x), RatMul(y, y), Whole(1)>>

\* A refusal that drops the model held.
FitForgets(cx, cy) == [coefficientsX |-> Null, coefficientsY |-> Null, outcome |-> "refused"]

\* The refusal of lines 32-35: fit returns, the fields as they were.
FitRefuses(cx, cy) == [coefficientsX |-> cx, coefficientsY |-> cy, outcome |-> "refused"]

\* A catch block that falls back to a flat model.
FitFailsWithDefault(cx, cy) ==
    [coefficientsX |-> <<Whole(0), Whole(0), Whole(0), Whole(0), Whole(0), Rat(1, 2)>>,
     coefficientsY |-> <<Whole(0), Whole(0), Whole(0), Whole(0), Whole(0), Rat(1, 2)>>,
     outcome       |-> "singular"]

\* The catch block of lines 59-61: invert threw before either field was
\* assigned; the error is logged and fit returns.
FitFails(cx, cy) == [coefficientsX |-> cx, coefficientsY |-> cy, outcome |-> "singular"]

\* fit (lines 31-62) on an instance whose fields are cx and cy: the fields
\* after the call and how it ended. "threw": multiply met matrices whose
\* sizes do not match, outside the try block.
fit(cx, cy, inputs, targets) ==
    IF Len(inputs) < MinPoints THEN FitRefuses(cx, cy)
    ELSE IF Len(inputs) # Len(targets)
    THEN [coefficientsX |-> cx, coefficientsY |-> cy, outcome |-> "threw"]
    ELSE LET X   == Row([p \in 1..Len(inputs) |-> Basis(inputs[p].x, inputs[p].y)])
             Yx  == Row([p \in 1..Len(targets) |-> <<targets[p].x>>])
             Yy  == Row([p \in 1..Len(targets) |-> <<targets[p].y>>])
             Xt  == transpose(X)
             inv == invert(multiply(Xt, X))
         IN  IF inv.singular THEN FitFails(cx, cy)
             ELSE [coefficientsX |-> Column(multiply(inv.inverse, multiply(Xt, Yx)), 1),
                   coefficientsY |-> Column(multiply(inv.inverse, multiply(Xt, Yy)), 1),
                   outcome       |-> "trained"]

\* predict (lines 64-80).
predict(cx, cy, x, y) ==
    IF cx = Null \/ cy = Null THEN [x |-> Whole(0), y |-> Whole(0)]
    ELSE LET term == Basis(x, y)
         IN  [x |-> RatDotTo(term, cx, 6), y |-> RatDotTo(term, cy, 6)]

\* POINTS (part_001, lines 26-38), in percent of the screen.
POINTS ==
    << [x |-> 10, y |-> 10], [x |-> 50, y |-> 10], [x |-> 90, y |-> 10],
       [x |-> 10, y |-> 50], [x |-> 50, y |-> 50], [x |-> 90, y |-> 50],
       [x |-> 10, y |-> 90], [x |-> 50, y |-> 90], [x |-> 90, y |-> 90] >>

\* Targets listed from the last grid point to the first.
TargetsReversed ==
    Row([p \in 1..Len(POINTS) |->
            [x |-> Rat(POINTS[Len(POINTS) + 1 - p].x, 100), y |-> Rat(POINTS[Len(POINTS) + 1 - p].y, 100)]])

\* The training targets of finishCalibration (part_001, line 109).
Targets == Row([p \in 1..Len(POINTS) |-> [x |-> Rat(POINTS[p].x, 100), y |-> Rat(POINTS[p].y, 100)]])

\* Targets of a screen whose centre point is drawn off centre.
SkewedTargets == [Targets EXCEPT ![5] = [x |-> Rat(3, 5), y |-> Rat(2, 5)]]

\* The gaze of a user looking at point p, in units of a fifth of the gaze
\* range: -2, 0 or 2 in yaw and in pitch.
GazeAt(p) == [yaw |-> Whole((POINTS[p].x - 50) \div 20), pitch |-> Whole((POINTS[p].y - 50) \div 20)]

\* Training inputs: the gaze at the nine points in grid order, in another
\* order, and the gaze of a user who never moves the eyes.
GridInputs == Row([p \in 1..Len(POINTS) |-> [x |-> GazeAt(p).yaw, y |-> GazeAt(p).pitch]])

ShuffledInputs == Row([p \in 1..Len(POINTS) |-> GridInputs[((4 * p) % 9) + 1]])

StillInputs == Row([p \in 1..Len(POINTS) |-> GridInputs[1]])

\* The numbers of points fit is called with.
InputLengths == {0, 3, 5, 6, 7, 9}

TrainingInputs ==
    { SubSeq(base, 1, n) : base \in {GridInputs, ShuffledInputs, StillInputs}, n \in InputLengths }

\* A model set by setCoefficients: screen = 0.5 + 0.1 gaze.
PresetModel ==
    [x |-> <<Rat(1, 10), Whole(0), Whole(0), Whole(0), Whole(0), Rat(1, 2)>>,
     y |-> <<Whole(0), Rat(1, 10), Whole(0), Whole(0), Whole(0), Rat(1, 2)>>]

\* Where predict is asked.
Probes ==
    { [x |-> Whole(0), y |-> Whole(0)], [x |-> Whole(2), y |-> Whole(-1)],
      [x |-> Whole(-2), y |-> Whole(2)] }

\* A screen that answers the gaze by a full quadratic:
\* c1 gx + c2 gy + c3 gx gy + c4 gx^2 + c5 gy^2 + c6.
QuadraticModel ==
    [x |-> <<Rat(1, 5), Rat(1, 10), Rat(-1, 20), Rat(1, 40), Rat(-1, 10), Rat(1, 2)>>,
     y |-> <<Rat(-1, 10), Rat(1, 4), Rat(1, 10), Rat(-1, 20), Rat(1, 8), Rat(2, 5)>>]

\* The value of the quadratic with coefficients c at (gx, gy).
Quadratic(c, gx, gy) ==
    RatAdd(RatAdd(RatAdd(RatMul(c[1], gx), RatMul(c[2], gy)),
                  RatAdd(RatMul(c[3], RatMul(gx, gy)), RatMul(c[4], RatMul(gx, gx)))),
           RatAdd(RatMul(c[5], RatMul(gy, gy)), c[6]))

\* The targets a screen answering by model m shows for the inputs.
GeneratedTargets(m, inputs) ==
    Row([p \in 1..Len(inputs) |->
        [x |-> Quadratic(m.x, inputs[p].x, inputs[p].y), y |-> Quadratic(m.y, inputs[p].x, inputs[p].y)]])

NoCall ==
    [op |-> "none", n |-> 0, outcome |-> "none", result |-> [x |-> Whole(0), y |-> Whole(0)],
     inputs |-> <<>>, targets |-> <<>>]

\* new PolynomialRegression() (lines 21-24).
RegressionInit ==
    /\ coefficientsX = Null /\ coefficientsY = Null
    /\ lastCall = NoCall

besidesRegression == <<hookVars, legacyVars, calibrationVars, controllerVars, kalmanVars, yawVars, mediaPipeVars>>

RegressionFit(inputs, targets) ==
    LET r == fit(coefficientsX, coefficientsY, inputs, targets)
    IN  /\ coefficientsX' = r.coefficientsX
        /\ coefficientsY' = r.coefficientsY
        /\ lastCall' = [op |-> "fit", n |-> Len(inputs), outcome |-> r.outcome,
                        result |-> NoCall.result, inputs |-> inputs, targets |-> targets]
        /\ UNCHANGED besidesRegression

\* setCoefficients (lines 86-89).
RegressionSetCoefficients(coeffs) ==
    /\ coefficientsX' = coeffs.x
    /\ coefficientsY' = coeffs.y
    /\ lastCall' = [op |-> "setCoefficients", n |-> 0, outcome |-> "returned",
                    result |-> NoCall.result, inputs |-> <<>>, targets |-> <<>>]
    /\ UNCHANGED besidesRegression

RegressionPredict(at) ==
    /\ lastCall' = [op |-> "predict", n |-> 0, outcome |-> "returned",
                    result |-> predict(coefficientsX, coefficientsY, at.x, at.y),
                    inputs |-> <<>>, targets |-> <<>>]
    /\ UNCHANGED <<coefficientsX, coefficientsY>>
    /\ UNCHANGED besidesRegression

RegressionNext ==
    \/ \E inputs \in TrainingInputs :
          \E targets \in {SubSeq(Targets, 1, Len(inputs)), Targets, SkewedTargets,
                          GeneratedTargets(QuadraticModel, inputs)} :
             RegressionFit(inputs, targets)
    \/ RegressionSetCoefficients(PresetModel)
    \/ \E at \in Probes : RegressionPredict(at)

(***************************************************************************)
(* CalibrationOverlay (src/unnamed/part_001) and the page that mounts it.  *)
(* The page is not part of the sources: its handlers follow the design     *)
(* document, section 4.7 (a session starts from Idle; onComplete commits   *)
(* the model and closes the overlay; onCancel closes it and leaves the     *)
(* committed model alone).                                                 *)
(* Gaze values are rationals in the unit of GazeAt.                        *)
(***************************************************************************)
\* Bounds of the calibration model: gaze updates collected for one point,
\* NaN gaze values delivered in a session.
MaxBuf == 3
MaxNaN == 2

CountdownStart == 3

NaNGaze == [yaw |-> NaNRat, pitch |-> NaNRat]

InitialGaze == [yaw |-> Whole(0), pitch |-> Whole(0)]

NoModel == [x |-> Null, y |-> Null]

\* The filter of line 80.
IsValid(r) == ~IsNaN(r.yaw) /\ ~IsNaN(r.pitch)

RECURSIVE RatSumTo(_, _)
RatSumTo(a, n) == IF n = 0 THEN Whole(0) ELSE RatAdd(RatSumTo(a, n - 1), a[n])

\* The averaged pair of recordPoint (lines 80-84): the mean of the valid
\* samples of the buffer, or of the closure's gaze alone when there is none.
Average(buffer, fallback) ==
    LET kept  == SelectSeq(buffer, IsValid)
        valid == IF Len(kept) = 0 THEN <<fallback>> ELSE kept
        yaws    == Row([k \in 1..Len(valid) |-> valid[k].yaw])
        pitches == Row([k \in 1..Len(valid) |-> valid[k].pitch])
    IN  [x |-> RatQuot(RatSumTo(yaws, Len(valid)), Whole(Len(valid))),
         y |-> RatQuot(RatSumTo(pitches, Len(valid)), Whole(Len(valid)))]

\* The collection effect (lines 71-76), run by a render in which gaze or
\* countdown changed.
Collect(buffer, c, g) == IF c <= 1 THEN Append(buffer, g) ELSE buffer

\* An advance that passes over a point.
SkipStep(s) == s + 2

\* setStep(step + 1) (line 93).
NextStep(s) == s + 1

\* A test that finds a next point after every point.
IsLastPointNever(s) == FALSE

\* step < POINTS.length - 1 is false (line 92).
IsLastPoint(s) == ~(s < Len(POINTS) - 1)

\* An effect without cleanup: the interval outlives the overlay.
CleanupKeepsInterval(running) == running

\* The cleanup of the countdown effect (line 67): clearInterval(timer).
CleanupInterval(running) == FALSE

\* finishCalibration up to its callback (lines 99-113): the coefficients of
\* a new PolynomialRegression after fit on the nine samples.
FinishCoefficients(finalSamples) ==
    LET r == fit(Null, Null, finalSamples, Targets)
    IN  [x |-> r.coefficientsX, y |-> r.coefficientsY]

\* coeffs.x && coeffs.y (line 114).
FitSucceeded(coeffs) == coeffs.x # Null /\ coeffs.y # Null

\* The overlay unmounted, the page showing no session.
CalibrationIdle ==
    /\ calPhase = "idle" /\ committedModel = NoModel
    /\ step = 0 /\ samples = <<>> /\ countdown = CountdownStart
    /\ currentSamplesRef = <<>> /\ closureGaze = InitialGaze
    /\ timerActive = FALSE /\ stepTimeout = FALSE
    /\ gazeProp = InitialGaze /\ gazeLive = TRUE /\ fresh = FALSE /\ nNaN = 0
    /\ recorded = <<>> /\ nFit = 0 /\ nComplete = 0 /\ nCancel = 0
    /\ received = <<>>

\* As CalibrationIdle, with or without a model committed by an earlier
\* session, the tracker delivering gaze or paused.
CalibrationInit ==
    /\ calPhase = "idle" /\ committedModel \in {NoModel, PresetModel}
    /\ step = 0 /\ samples = <<>> /\ countdown = CountdownStart
    /\ currentSamplesRef = <<>> /\ closureGaze = InitialGaze
    /\ timerActive = FALSE /\ stepTimeout = FALSE
    /\ gazeProp = InitialGaze /\ gazeLive \in BOOLEAN /\ fresh = FALSE /\ nNaN = 0
    /\ recorded = <<>> /\ nFit = 0 /\ nComplete = 0 /\ nCancel = 0
    /\ received = <<>>

besidesCalibration == <<hookVars, legacyVars, regressionVars, controllerVars, kalmanVars, yawVars, mediaPipeVars>>

\* The page starts a session: the overlay mounts (lines 41-46) and its
\* effects run (lines 48-76).
StartCalibration ==
    /\ calPhase = "idle"
    /\ calPhase' = "active"
    /\ step' = 0 /\ samples' = <<>> /\ countdown' = CountdownStart
    /\ currentSamplesRef' = <<>>
    /\ closureGaze' = gazeProp
    /\ timerActive' = TRUE
    /\ received' = <<>>
    /\ UNCHANGED <<stepTimeout, committedModel, gazeVars, sessionLog>>
    /\ UNCHANGED besidesCalibration

\* The tracker publishes a gaze: the overlay renders with the new prop and
\* the collection effect runs.
GazeUpdate(g) ==
    /\ calPhase = "active" /\ gazeLive
    /\ countdown <= 1 => Len(currentSamplesRef) < MaxBuf
    /\ ~IsValid(g) => nNaN < MaxNaN
    /\ gazeProp' = g
    /\ currentSamplesRef' = Collect(currentSamplesRef, countdown, g)
    /\ fresh' = TRUE
    /\ nNaN' = IF IsValid(g) THEN nNaN ELSE nNaN + 1
    /\ received' = IF countdown <= 1 /\ timerActive THEN Append(received, g) ELSE received
    /\ UNCHANGED <<step, samples, countdown, closureGaze, timerActive, stepTimeout>>
    /\ UNCHANGED <<gazeLive, pageVars, sessionLog>>
    /\ UNCHANGED besidesCalibration

\* A tick of the countdown interval (lines 52-61). At countdown <= 1 the
\* interval is cleared and recordPoint runs (lines 78-97): after the last
\* point finishCalibration (lines 99-126) fits and calls the page. The
\* render that follows a change of countdown runs the collection effect.
\* While the tracker delivers gaze, at least one update falls between two
\* ticks, a second apart.
IntervalTick ==
    /\ timerActive
    /\ gazeLive => fresh
    /\ fresh' = FALSE
    /\ UNCHANGED <<step, closureGaze, gazeProp, gazeLive, nNaN, received>>
    /\ UNCHANGED besidesCalibration
    /\ IF countdown <= 1
       THEN LET newSamples == Append(samples, Average(currentSamplesRef, closureGaze))
            IN  /\ timerActive' = FALSE
                /\ countdown' = 0
                /\ samples' = newSamples
                /\ recorded' = Append(recorded, step)
                /\ IF ~IsLastPoint(step)
                   THEN /\ stepTimeout' = TRUE
                        /\ currentSamplesRef' = Collect(currentSamplesRef, 0, gazeProp)
                        /\ UNCHANGED <<pageVars, nFit, nComplete, nCancel>>
                   ELSE LET coeffs == FinishCoefficients(newSamples)
                        IN  /\ nFit' = nFit + 1
                            /\ UNCHANGED <<stepTimeout, currentSamplesRef>>
                            /\ IF FitSucceeded(coeffs)
                               THEN /\ nComplete' = nComplete + 1
                                    /\ calPhase' = "done"
                                    /\ committedModel' = coeffs
                                    /\ UNCHANGED nCancel
                               ELSE /\ nCancel' = nCancel + 1
                                    /\ calPhase' = "cancelled"
                                    /\ UNCHANGED <<committedModel, nComplete>>
       ELSE /\ countdown' = countdown - 1
            /\ currentSamplesRef' = Collect(currentSamplesRef, countdown - 1, gazeProp)
            /\ UNCHANGED <<samples, timerActive, stepTimeout, pageVars, sessionLog>>

\* The timeout of recordPoint fires (line 93): setStep, and the render it
\* causes runs the countdown effect for the new point (lines 48-68). On an
\* unmounted overlay setStep does nothing.
TimeoutFire ==
    /\ stepTimeout
    /\ stepTimeout' = FALSE
    /\ IF calPhase = "active"
       THEN /\ step' = NextStep(step)
            /\ countdown' = CountdownStart
            /\ currentSamplesRef' = <<>>
            /\ timerActive' = TRUE
            /\ closureGaze' = gazeProp
            /\ fresh' = FALSE
            /\ received' = <<>>
       ELSE UNCHANGED <<step, countdown, currentSamplesRef, timerActive, closureGaze, fresh, received>>
    /\ UNCHANGED <<samples, pageVars, gazeProp, gazeLive, nNaN, sessionLog>>
    /\ UNCHANGED besidesCalibration

\* The Cancel button (lines 158-163) calls onCancel: the page closes the
\* overlay, whose unmounting runs the cleanup of the countdown effect.
CancelCalibration ==
    /\ calPhase = "active"
    /\ calPhase' = "cancelled"
    /\ nCancel' = nCancel + 1
    /\ timerActive' = (timerActive /\ CleanupInterval(timerActive))
    /\ UNCHANGED <<step, samples, countdown, currentSamplesRef, closureGaze, stepTimeout>>
    /\ UNCHANGED <<committedModel, gazeVars, recorded, nFit, nComplete, received>>
    /\ UNCHANGED besidesCalibration

CalibrationNext ==
    \/ StartCalibration
    \/ \E g \in {GazeAt(step + 1), NaNGaze} : GazeUpdate(g)
    \/ IntervalTick
    \/ TimeoutFire
    \/ CancelCalibration

(***************************************************************************)
(* GazeController (src/unnamed/part_002). Two instances are mounted side   *)
(* by side: every render gives both the same rotation, gaze and isTracking *)
(* and every animation frame runs the useFrame callback of both; their     *)
(* calibration props are set independently. Angles in milliradians, cursor *)
(* coordinates in 1/1000 unit.                                             *)
(***************************************************************************)
Instances == {1, 2}

\* The angle that stands for NaN.
NaNAngle == 999999

ScreenScale == 70

MaxY == 45

NoCalibration == [present |-> FALSE, regression |-> NoModel]

\* A calibration of the older kind: input ranges, no regression.
RangeCalibration == [present |-> TRUE, regression |-> NoModel]

\* A model another session fitted: screen = 0.5 + 0.2 gaze + 0.05 gaze^2.
OtherModel ==
    [x |-> <<Rat(1, 5), Whole(0), Whole(0), Rat(1, 20), Whole(0), Rat(1, 2)>>,
     y |-> <<Whole(0), Rat(1, 5), Whole(0), Whole(0), Rat(1, 20), Rat(1, 2)>>]

CalibrationValues ==
    { NoCalibration, RangeCalibration,
      [present |-> TRUE, regression |-> PresetModel],
      [present |-> TRUE, regression |-> OtherModel] }

\* What a render passes on of the tracker's outputs: rotation and gaze; the
\* gaze absent, small, beyond the edge of the screen, and NaN.
TrackerOutputs ==
    { [rotation |-> [yaw |-> 250, pitch |-> -120, roll |-> 30], gaze |-> <<>>],
      [rotation |-> [yaw |-> 90, pitch |-> -40, roll |-> 0], gaze |-> <<[yaw |-> 100, pitch |-> -50]>>],
      [rotation |-> [yaw |-> 250, pitch |-> -120, roll |-> 30], gaze |-> <<[yaw |-> 2000, pitch |-> 900]>>],
      [rotation |-> [yaw |-> 0, pitch |-> 0, roll |-> 0], gaze |-> <<[yaw |-> NaNAngle, pitch |-> -300]>>] }

AspectValues == {1333, 1778}

\* calibration && calibration.regression (line 35).
HasRegression(c) == c.present /\ c.regression # NoModel

Min(a, b) == IF a <= b THEN a ELSE b

\* Math.max(-bound, Math.min(bound, v)) (lines 74-75).
Clamp(v, bound) == Max(-bound, Min(bound, v))

\* A useFrame that maps the gaze through the regression when it holds a model.
CursorTargetCalibrated(regression, g, r, aspect) ==
    IF regression = NoModel \/ g = <<>> \/ g[1].yaw = NaNAngle \/ g[1].pitch = NaNAngle
    THEN [x |-> Clamp(0, MaxY * aspect), y |-> Clamp(0, MaxY * 1000)]
    ELSE LET at == predict(regression.x, regression.y, Rat(g[1].yaw, 1000), Rat(g[1].pitch, 1000))
         IN  [x |-> Clamp(RDiv((2 * at.x[1] - at.x[2]) * MaxY * aspect, at.x[2]), MaxY * aspect),
              y |-> Clamp(RDiv((2 * at.y[1] - at.y[2]) * MaxY * 1000, at.y[2]), MaxY * 1000)]

\* (targetX, targetY) of the useFrame callback (lines 44-75), which has
\* regressionRef in scope and does not read it.
CursorTarget(regression, g, r, aspect) ==
    LET yaw   == IF g # <<>> THEN g[1].yaw ELSE r.yaw
        pitch == IF g # <<>> THEN g[1].pitch ELSE r.pitch
    IN  [x |-> Clamp((IF yaw = NaNAngle THEN 0 ELSE yaw) * ScreenScale, MaxY * aspect),
         y |-> Clamp((IF pitch = NaNAngle THEN 0 ELSE pitch) * ScreenScale, MaxY * 1000)]

\* Both instances after their first render (lines 27-38).
ControllerInit ==
    /\ props = [rotation |-> [yaw |-> 0, pitch |-> 0, roll |-> 0],
                gaze |-> <<[yaw |-> 0, pitch |-> 0]>>, isTracking |-> TRUE]
    /\ windowAspect = 1778
    /\ calibration = <<NoCalibration, NoCalibration>>
    /\ regressionRef = <<NoModel, NoModel>>
    /\ cursorTarget = <<[x |-> 0, y |-> 0], [x |-> 0, y |-> 0]>>
    /\ framedApart = FALSE

besidesController == <<hookVars, legacyVars, regressionVars, calibrationVars, kalmanVars, yawVars, mediaPipeVars>>

\* The parent renders both instances with new props (line 27).
ControllerRender(r, g, tracking) ==
    /\ props' = [rotation |-> r, gaze |-> g, isTracking |-> tracking]
    /\ props' # props
    /\ UNCHANGED <<windowAspect, calibration, regressionRef, cursorTarget, framedApart>>
    /\ UNCHANGED besidesController

\* The window is resized.
ResizeWindow(aspect) ==
    /\ aspect # windowAspect
    /\ windowAspect' = aspect
    /\ UNCHANGED <<props, calibration, regressionRef, cursorTarget, framedApart>>
    /\ UNCHANGED besidesController

\* The parent gives instance i another calibration prop.
SetCalibration(i, c) ==
    /\ c # calibration[i]
    /\ calibration' = [calibration EXCEPT ![i] = c]
    /\ UNCHANGED <<props, windowAspect, regressionRef, cursorTarget, framedApart>>
    /\ UNCHANGED besidesController

\* The effect of lines 34-38 of instance i, after its calibration changed.
CalibrationEffect(i) ==
    /\ HasRegression(calibration[i])
    /\ regressionRef[i] # calibration[i].regression
    /\ regressionRef' = [regressionRef EXCEPT ![i] = calibration[i].regression]
    /\ UNCHANGED <<props, windowAspect, calibration, cursorTarget, framedApart>>
    /\ UNCHANGED besidesController

\* An animation frame: the useFrame callback of both instances (lines
\* 40-87). With isTracking false the group is not rendered, cursorRef is
\* null and the callback returns at line 41.
UseFrame ==
    /\ IF props.isTracking
       THEN /\ cursorTarget' =
                  <<CursorTarget(regressionRef[1], props.gaze, props.rotation, windowAspect),
                    CursorTarget(regressionRef[2], props.gaze, props.rotation, windowAspect)>>
            /\ framedApart' = (regressionRef[1] # regressionRef[2])
       ELSE UNCHANGED <<cursorTarget, framedApart>>
    /\ UNCHANGED <<props, windowAspect, calibration, regressionRef>>
    /\ UNCHANGED besidesController

ControllerNext ==
    \/ \E out \in TrackerOutputs, tracking \in BOOLEAN :
          ControllerRender(out.rotation, out.gaze, tracking)
    \/ \E aspect \in AspectValues : ResizeWindow(aspect)
    \/ \E i \in Instances, c \in CalibrationValues : SetCalibration(i, c)
    \/ \E i \in Instances : CalibrationEffect(i)
    \/ UseFrame

(***************************************************************************)
(* A KalmanFilter instance on its own (utils/KalmanFilter.ts): constructed *)
(* with chosen noise levels and fed measurements. Noise and measurements   *)
(* in 1/1000.                                                              *)
(***************************************************************************)
\* Bound of the filter model.
MaxUpdates == 5

\* (processNoise, measurementNoise), which the constructor takes as any
\* numbers: its defaults, a noiseless filter, whose covariance collapses to
\* zero, and a measurement noise that cancels the covariance predicted for
\* the second update.
NoiseLevels == {<<10, 100>>, <<0, 0>>, <<10, -2010>>}

Measurements == {<<0, 0>>, <<4000, -2000>>, <<-1000, 3000>>}

KalmanInit ==
    /\ kf = KalmanFilter(KalmanQ, KalmanR)
    /\ kfOut = [x |-> 0, y |-> 0]
    /\ kfCall = [before |-> KalmanFilter(KalmanQ, KalmanR), mx |-> 0, my |-> 0]
    /\ nUpdates = 0

besidesKalman == <<hookVars, legacyVars, regressionVars, calibrationVars, controllerVars, yawVars, mediaPipeVars>>

\* new KalmanFilter(processNoise, measurementNoise) (lines 33-59).
KalmanNew(processNoise, measurementNoise) ==
    /\ nUpdates > 0
    /\ kf' = KalmanFilter(processNoise, measurementNoise)
    /\ nUpdates' = 0
    /\ UNCHANGED <<kfOut, kfCall>>
    /\ UNCHANGED besidesKalman

\* update(mx, my) (lines 61-112).
KalmanStep(mx, my) ==
    /\ nUpdates < MaxUpdates
    /\ kf' = KalmanUpdate(kf, mx, my)
    /\ kfOut' = [x |-> kf'.x[1], y |-> kf'.x[2]]
    /\ kfCall' = [before |-> kf, mx |-> mx, my |-> my]
    /\ nUpdates' = nUpdates + 1
    /\ UNCHANGED besidesKalman

KalmanNext ==
    \/ \E n \in NoiseLevels : KalmanNew(n[1], n[2])
    \/ \E m \in Measurements : KalmanStep(m[1], m[2])

(***************************************************************************)
(* The yaw correction of onResults (src/unnamed/part_000, lines 527-536)   *)
(* on its own: the head turns, euler.y of the Euler extraction follows     *)
(* over its whole range [-pi, pi], wrapping at the ends.                   *)
(***************************************************************************)
\* The changes of euler.y from one frame to the next, mrad.
YawSteps == {-1, 1, 50}

\* Math.atan2 stays in [-pi, pi]: an angle beyond an end comes out at the other.
WrapEuler(a) == IF a > PI THEN a - 2 * PI ELSE IF a < -PI THEN a + 2 * PI ELSE a

YawInit == eulerY = 0 /\ fixedYaw = FixYaw(0)

besidesYaw == <<hookVars, legacyVars, regressionVars, calibrationVars, controllerVars, kalmanVars, mediaPipeVars>>

\* A frame whose face has turned by d: lines 527 and 533-536.
YawCorrection(d) ==
    /\ eulerY' = WrapEuler(eulerY + d)
    /\ fixedYaw' = FixYaw(eulerY')
    /\ UNCHANGED besidesYaw

YawNext == \E d \in YawSteps : YawCorrection(d)

(***************************************************************************)
(* useMediaPipe (src/unnamed/part_000, lines 9-153), initialized: the      *)
(* scripts are loaded, the detector and the camera built and started, and  *)
(* the effect has run for isInitialized = true. Positions in 1/100 unit.   *)
(***************************************************************************)
MediaPipeAlpha == 250

\* A detector result as onResults reads it: the number of faces and, of the
\* first, the mean of the six landmarks in pixels and the spread of their x.
MediaPipeResults ==
    {[faces |-> 0, avgX |-> 0, avgY |-> 0, faceWidth |-> 0]}
    \cup {[faces |-> 1, avgX |-> f.avgX, avgY |-> f.avgY, faceWidth |-> f.faceWidth] : f \in LegacyFaces}

NoFrame == [faces |-> -1]

\* currentPos (lines 86-93).
MediaPipeCurrentPos(f) ==
    [x |-> (f.avgX - 320) * 300,
     y |-> (240 - f.avgY) * 300,
     z |-> Max(45000, 70000 + (250 - f.faceWidth) * 80)]

\* A handler that takes tracking for on after every result.
TrackingAfterAlways(faces) == TRUE

\* isTrackingRef.current after a result (lines 102 and 111).
TrackingAfter(faces) == faces > 0

\* The dependencies of the effect (line 138); isInitialized is true.
MediaPipeDeps == <<mpIsTracking, TRUE, mpCallback>>

MediaPipeInit ==
    /\ mpIsTracking = TRUE /\ mpCallback = 0
    /\ mpEffectDeps = <<TRUE, TRUE, 0>>
    /\ mpTrackingRef = TRUE
    /\ mpEyePos = Neutral
    /\ mpCameraOn = TRUE
    /\ mpPending = NoFrame
    /\ mpLast = [frame |-> NoFrame, sent |-> FALSE]
    /\ mpFrames = 0 /\ mpHandled = 0

besidesMediaPipe ==
    <<hookVars, legacyVars, regressionVars, calibrationVars, controllerVars, kalmanVars, yawVars>>

\* The caller renders with the other value of isTracking.
MediaPipeSetTracking ==
    /\ mpIsTracking' = ~mpIsTracking
    /\ UNCHANGED <<mpCallback, mpEffectDeps, mpTrackingRef, mpEyePos, mpCameraOn,
                   mpPending, mpLast, mpFrames, mpHandled>>
    /\ UNCHANGED besidesMediaPipe

\* The caller renders with another function as onPositionUpdate.
MediaPipeNewCallback ==
    /\ mpCallback' = 1 - mpCallback
    /\ UNCHANGED <<mpIsTracking, mpEffectDeps, mpTrackingRef, mpEyePos, mpCameraOn,
                   mpPending, mpLast, mpFrames, mpHandled>>
    /\ UNCHANGED besidesMediaPipe

\* The effect re-runs after a render that changed a dependency: the cleanup
\* of its previous run stops the camera (lines 133-137), then the body sets
\* the ref (line 127); initialized, it does not build a camera again.
MediaPipeEffect ==
    /\ mpEffectDeps # MediaPipeDeps
    /\ mpEffectDeps' = MediaPipeDeps
    /\ mpCameraOn' = FALSE
    /\ mpTrackingRef' = mpIsTracking
    /\ UNCHANGED <<mpIsTracking, mpCallback, mpEyePos, mpPending, mpLast, mpFrames, mpHandled>>
    /\ UNCHANGED besidesMediaPipe

\* The camera delivers a frame (lines 64-68): with the ref set it goes to
\* the detector, which owes a result, and onFrame waits for it.
MediaPipeFrame(result) ==
    /\ mpCameraOn /\ mpPending = NoFrame /\ mpFrames < MaxFrames
    /\ mpFrames' = mpFrames + 1
    /\ mpPending' = IF mpTrackingRef THEN result ELSE NoFrame
    /\ mpLast' = [frame |-> result, sent |-> mpTrackingRef]
    /\ UNCHANGED <<mpIsTracking, mpCallback, mpEffectDeps, mpTrackingRef, mpEyePos,
                   mpCameraOn, mpHandled>>
    /\ UNCHANGED besidesMediaPipe

\* The detector delivers the result owed: onResults (lines 75-114).
MediaPipeOnResults ==
    /\ mpPending # NoFrame
    /\ mpPending' = NoFrame
    /\ mpHandled' = mpHandled + 1
    /\ mpEyePos' =
          IF mpPending.faces > 0
          THEN LET cur == MediaPipeCurrentPos(mpPending)
               IN  [x |-> Ema(MediaPipeAlpha, cur.x, mpEyePos.x),
                    y |-> Ema(MediaPipeAlpha, cur.y, mpEyePos.y),
                    z |-> Ema(MediaPipeAlpha, cur.z, mpEyePos.z)]
          ELSE [x |-> Drift(Neutral.x, mpEyePos.x),
                y |-> Drift(Neutral.y, mpEyePos.y),
                z |-> Drift(Neutral.z, mpEyePos.z)]
    /\ mpTrackingRef' = TrackingAfter(mpPending.faces)
    /\ UNCHANGED <<mpIsTracking, mpCallback, mpEffectDeps, mpCameraOn, mpLast, mpFrames>>
    /\ UNCHANGED besidesMediaPipe

\* reset (lines 140-142).
MediaPipeReset ==
    /\ mpEyePos # Neutral
    /\ mpEyePos' = Neutral
    /\ UNCHANGED <<mpIsTracking, mpCallback, mpEffectDeps, mpTrackingRef, mpCameraOn,
                   mpPending, mpLast, mpFrames, mpHandled>>
    /\ UNCHANGED besidesMediaPipe

MediaPipeNext ==
    \/ MediaPipeSetTracking
    \/ MediaPipeNewCallback
    \/ MediaPipeEffect
    \/ \E result \in MediaPipeResults : MediaPipeFrame(result)
    \/ MediaPipeOnResults
    \/ MediaPipeReset

vars == <<hookVars, legacyVars, regressionVars, calibrationVars, controllerVars, kalmanVars, yawVars,
          mediaPipeVars>>

\* Every component as constructed, no calibration session begun.
Init == HookInit /\ LegacyInit /\ RegressionInit /\ CalibrationIdle /\ ControllerInit /\ KalmanInit /\ YawInit /\ MediaPipeInit

SessionInit == HookInit /\ LegacyInit /\ RegressionInit /\ CalibrationInit /\ ControllerInit /\ KalmanInit /\ YawInit /\ MediaPipeInit

Spec == Init /\ [][HookNext]_vars

SpecTuning == Init /\ [][TuningNext]_vars

SpecEyes == Init /\ [][EyesNext]_vars

SpecPosition == Init /\ [][LegacyNext]_vars

SpecRegression == Init /\ [][RegressionNext]_vars

SpecCalibration == SessionInit /\ [][CalibrationNext]_vars

SpecController == Init /\ [][ControllerNext]_vars

SpecKalman == Init /\ [][KalmanNext]_vars

SpecYaw == Init /\ [][YawNext]_vars

SpecMediaPipe == Init /\ [][MediaPipeNext]_vars

(***************************************************************************)
(* Properties of the hook                                                  *)
(***************************************************************************)
UsableFace(f) == f.faces > 0 /\ f.len >= MinLandmarks

\* The step in which onResults receives the detector's result.
ResultStep == pending # NoResult /\ pending' = NoResult

C2_ModeApplies ==
    [][(ResultStep /\ UsableFace(pending)) =>
          gaze' = [yaw   |-> filterYaw'.xPrev
                             + EyeComponent(trackingMode, EyeAngle(iris'.x, pending.eyeScaleNorm), EyeGainYaw),
                   pitch |-> filterPitch'.xPrev
                             + EyeComponent(trackingMode, EyeAngle(iris'.y, pending.eyeScaleNorm), EyeGainPitch)]]_vars

\* C3. A recenter request changes neither the offset nor an output; it stays
\* pending, the offset untouched, through every step but the processing of a
\* usable face, which sets the offset to that frame's raw rotation and clears
\* the request; with no request pending the offset never changes.
C3_RecenterOnNextFrame ==
    [][/\ (~recenterNextFrameRef /\ recenterNextFrameRef')
             => UNCHANGED <<rotationOffsetRef, outputs>>
       /\ (recenterNextFrameRef /\ ~(ResultStep /\ UsableFace(pending)))
             => (recenterNextFrameRef' /\ UNCHANGED rotationOffsetRef)
       /\ (recenterNextFrameRef /\ ResultStep /\ UsableFace(pending))
             => /\ ~recenterNextFrameRef'
                /\ rotationOffsetRef' = [yaw   |-> FixYaw(pending.euler.y),
                                         pitch |-> pending.euler.x,
                                         roll  |-> pending.euler.z]
       /\ (~recenterNextFrameRef /\ ~recenterNextFrameRef')
             => UNCHANGED rotationOffsetRef]_vars

\* A request outlived a result without a usable face and was then served by a
\* processed frame.
C3_Witness ==
    /\ heldOver /\ ~recenterNextFrameRef /\ lastOutcome = "processed"
    /\ rotationOffsetRef = RawRotation(FaceOpen)

\* C4. A result without a face leaves rotation, gaze and blink as they were
\* and moves EyePosition one decay step (0.05 neutral + 0.95 previous) toward
\* (0, 0, 800).
C4_NoFaceDecays ==
    [][(ResultStep /\ pending.faces = 0) =>
          /\ UNCHANGED <<rotation, gaze, blink>>
          /\ 100 * eyePos'.x = 95 * eyePos.x
          /\ 100 * eyePos'.y = 95 * eyePos.y
          /\ 100 * eyePos'.z = 5 * 800 + 95 * eyePos.z]_vars

\* C6. A face with fewer than 478 landmarks is dropped silently: no exception
\* leaves the handler and nothing but the bookkeeping of the frame changes.
C6_ShortFrameDropped ==
    [][(ResultStep /\ pending.faces > 0 /\ pending.len < MinLandmarks) =>
          /\ uncaught' = uncaught
          /\ UNCHANGED <<rotation, gaze, blink, iris, tare, filters>>]_vars

\* C7. Once a slider has changed minCutoff or beta, the head-rotation filters
\* smooth the next sample with the values set.
C7_TuningApplies ==
    [][(ResultStep /\ UsableFace(pending)
          /\ configRef # [minCutoff |-> InitMinCutoff, beta |-> InitBeta]) =>
          LET tuned(f) == [f EXCEPT !.minCutoff = configRef.minCutoff, !.beta = configRef.beta]
              raw      == RawRotation(pending)
          IN  /\ filterYaw'.xPrev =
                   OneEuroFilterFilter(tuned(filterYaw), raw.yaw - rotationOffsetRef'.yaw, now).xPrev
              /\ filterPitch'.xPrev =
                   OneEuroFilterFilter(tuned(filterPitch), raw.pitch - rotationOffsetRef'.pitch, now).xPrev
              /\ filterRoll'.xPrev =
                   OneEuroFilterFilter(tuned(filterRoll), raw.roll - rotationOffsetRef'.roll, now).xPrev]_vars

\* One update(mx, my) of a constant-velocity filter, from k to k2, out the
\* pair returned: the first one stores the measurement with velocity 0,
\* leaves the covariance alone and returns the measurement; a later one
\* predicts (x = F x, P = F P F^T + Q), then corrects with the measurement,
\* and returns the corrected position.
FirstThenFiltered(k, k2, mx, my, out) ==
    /\ k2.initialized /\ k2.Q = k.Q /\ k2.R = k.R
    /\ out = <<k2.x[1], k2.x[2]>>
    /\ IF ~k.initialized
       THEN k2.x = <<mx, my, 0, 0>> /\ k2.P = k.P /\ out = <<mx, my>>
       ELSE LET predicted == [k EXCEPT !.x = <<k.x[1] + k.x[3], k.x[2] + k.x[4], k.x[3], k.x[4]>>,
                                       !.P = KalmanPredict(k).P]
            IN  k2 = KalmanCorrect(predicted, mx, my)

\* C13. On a frame that is not a blink each per-eye filter is updated with
\* the eye's iris offset: the first update of a filter returns exactly the
\* measurement, sets the state to [mx, my, 0, 0], leaves the covariance
\* untouched and marks the filter initialized; every later update runs
\* predict, then correct.
C13_FirstUpdateSeeds ==
    [][(ResultStep /\ UsableFace(pending) /\ ~blink'.isBlinking) =>
          /\ FirstThenFiltered(kalmanRight, kalmanRight', pending.offsetR.x, pending.offsetR.y,
                               <<lastEyePosRef'.rX, lastEyePosRef'.rY>>)
          /\ FirstThenFiltered(kalmanLeft, kalmanLeft', pending.offsetL.x, pending.offsetL.y,
                               <<lastEyePosRef'.lX, lastEyePosRef'.lY>>)]_vars

\* The right-eye filter has been seeded by one frame and has filtered a
\* second one: its covariance is no longer the identity.
C13_Witness ==
    /\ kalmanRight.initialized /\ kalmanRight.P # eye(4, One)
    /\ lastEyePosRef.rX = kalmanRight.x[1] /\ lastOutcome = "processed"

\* The input of the three head filters on a frame: the raw rotation less the
\* offset in force after the recenter step (lines 589-596).
FilterInput(f, offset) ==
    LET raw == RawRotation(f)
    IN  [yaw |-> raw.yaw - offset.yaw, pitch |-> raw.pitch - offset.pitch,
         roll |-> raw.roll - offset.roll]

\* C14. The first call of each head-rotation filter returns its input
\* unchanged (the roll published is the roll put in) and seeds the filter:
\* its previous value is the input, its previous time the time of the call.
C14_FirstCallSeeds ==
    [][(ResultStep /\ UsableFace(pending) /\ ~filterYaw.initialized) =>
          LET in == FilterInput(pending, rotationOffsetRef')
          IN  /\ ~filterPitch.initialized /\ ~filterRoll.initialized
              /\ filterYaw'.initialized /\ filterYaw'.xPrev = in.yaw /\ filterYaw'.tPrev = now
              /\ filterPitch'.initialized /\ filterPitch'.xPrev = in.pitch /\ filterPitch'.tPrev = now
              /\ filterRoll'.initialized /\ filterRoll'.xPrev = in.roll /\ filterRoll'.tPrev = now
              /\ rotation'.roll = in.roll]_vars

\* The first face processed, after a recenter request: the filters hold
\* input 0 and the time of the call, which is not 0.
C14_Witness ==
    /\ lastOutcome = "processed" /\ nFrames = 1 /\ now > 0
    /\ filterYaw.initialized /\ filterYaw.tPrev = now /\ filterRoll.xPrev = 0
    /\ rotationOffsetRef = RawRotation(FaceBlink) /\ rotation.roll = 0

\* C15. A call of a head-rotation filter at a time not later than that of
\* its previous call returns the previous output, whatever the input: the
\* filter memory stays as it was and the roll published is the previous
\* output.
C15_NoTimeNoChange ==
    [][(ResultStep /\ UsableFace(pending) /\ filterYaw.initialized /\ now <= filterYaw.tPrev) =>
          /\ filterYaw'.xPrev = filterYaw.xPrev
          /\ filterPitch'.xPrev = filterPitch.xPrev
          /\ filterRoll'.xPrev = filterRoll.xPrev
          /\ UNCHANGED <<filterYaw, filterPitch, filterRoll>>
          /\ rotation'.roll = filterRoll.xPrev]_vars

\* A frame with closed eyes and another pose was processed in the same
\* millisecond as the frame before it: the filters still hold the pose of
\* the open-eyed face.
C15_Witness ==
    /\ lastOutcome = "processed" /\ nFrames = 2 /\ blink.isBlinking
    /\ filterYaw.tPrev = now /\ now = ClockStep
    /\ filterYaw.xPrev = RawRotation(FaceOpen).yaw
    /\ rotation.roll = RawRotation(FaceOpen).roll

\* The eyes of face f are closed: both corner distances are positive and
\* the mean of the two aspect ratios is below 0.18.
EyesClosed(f) ==
    /\ f.rightEye.h > 0 /\ f.leftEye.h > 0
    /\ RDiv(RDiv((f.rightEye.v1 + f.rightEye.v2) * 1000, 2 * f.rightEye.h)
              + RDiv((f.leftEye.v1 + f.leftEye.v2) * 1000, 2 * f.leftEye.h), 2) < 180

\* The iris output for the per-eye values held: each divided by the frame
\* size, the two eyes averaged.
IrisOf(held) ==
    [x |-> RDiv(RDiv(held.rX * 1000, V_WIDTH) + RDiv(held.lX * 1000, V_WIDTH), 2),
     y |-> RDiv(RDiv(held.rY * 1000, V_HEIGHT) + RDiv(held.lY * 1000, V_HEIGHT), 2)]

\* C17. A frame with the eyes closed feeds neither per-eye filter (state,
\* covariance and initialized flag stay) and uses the values last stored,
\* which stay stored; a frame with the eyes open updates both filters with
\* the frame's iris offsets and stores their outputs, which it uses.
C17_BlinkHolds ==
    [][(ResultStep /\ UsableFace(pending)) =>
          /\ blink'.isBlinking = EyesClosed(pending)
          /\ iris' = IrisOf(lastEyePosRef')
          /\ IF EyesClosed(pending)
             THEN UNCHANGED <<kalmanRight, kalmanLeft, lastEyePosRef>>
             ELSE /\ kalmanRight' = KalmanUpdate(kalmanRight, pending.offsetR.x, pending.offsetR.y)
                  /\ kalmanLeft' = KalmanUpdate(kalmanLeft, pending.offsetL.x, pending.offsetL.y)
                  /\ lastEyePosRef' = [rX |-> kalmanRight'.x[1], rY |-> kalmanRight'.x[2],
                                       lX |-> kalmanLeft'.x[1], lY |-> kalmanLeft'.x[2]]]_vars

\* A blink right after the first open-eyed frame: the iris published is
\* that of the open-eyed frame's offsets, which the filters still hold.
C17_Witness ==
    /\ lastOutcome = "processed" /\ nFrames = 2 /\ blink.isBlinking
    /\ lastEyePosRef = [rX |-> 12000, rY |-> 3000, lX |-> 10000, lY |-> 3000]
    /\ kalmanRight.x = <<12000, 3000, 0, 0>> /\ kalmanRight.P = eye(4, One)
    /\ iris = IrisOf(lastEyePosRef)

\* C23. Frames are processed one at a time. A camera frame is taken up only
\* when the detector owes no result, and the result owed is never replaced.
\* Filter state, last valid iris values and the rotation offset change in no
\* step but the one in which onResults handles a result: no toggle, recenter
\* request or mode change touches them, also while a result is owed. That
\* step runs the whole pipeline for a usable face (blink, iris filtering
\* unless blinking, recenter, head filtering, fusion, publication) and none
\* of it otherwise.
C23_OneFrameAtATime ==
    [][/\ nFrames' # nFrames => pending = NoResult
       /\ pending # NoResult => pending' \in {pending, NoResult}
       /\ ~ResultStep => UNCHANGED <<filters, rotationOffsetRef>>
       /\ (ResultStep /\ lastOutcome' # "processed") => UNCHANGED <<filters, tare, outputs>>
       /\ (ResultStep /\ lastOutcome' = "processed") =>
             /\ blink'.leftEAR = calculateEAR(pending.leftEye)
             /\ ~blink'.isBlinking =>
                   /\ kalmanRight'.initialized /\ kalmanLeft'.initialized
                   /\ lastEyePosRef' = [rX |-> kalmanRight'.x[1], rY |-> kalmanRight'.x[2],
                                        lX |-> kalmanLeft'.x[1], lY |-> kalmanLeft'.x[2]]
             /\ blink'.isBlinking => UNCHANGED <<kalmanRight, kalmanLeft, lastEyePosRef>>
             /\ ~recenterNextFrameRef'
             /\ recenterNextFrameRef => rotationOffsetRef' = RawRotation(pending)
             /\ filterYaw'.initialized /\ filterPitch'.initialized /\ filterRoll'.initialized
             /\ filterYaw'.tPrev = now /\ filterPitch'.tPrev = now /\ filterRoll'.tPrev = now
             /\ rotation'.roll = filterRoll'.xPrev
             /\ gaze'.yaw = filterYaw'.xPrev
                             + EyeComponent(onResultsMode, EyeAngle(iris'.x, pending.eyeScaleNorm), EyeGainYaw)
             /\ eyePos'.x = (pending.nose.x - 320) * EyePosScale]_vars

\* Tracking was switched off, a recenter requested and the mode changed
\* while the detector owed the result of a frame, after an earlier frame had
\* been processed.
C23_Witness ==
    /\ pending # NoResult /\ UsableFace(pending)
    /\ ~isTrackingRef /\ recenterNextFrameRef /\ trackingMode = "iris"
    /\ filterYaw.initialized /\ lastOutcome = "processed"

\* The step in which the handling of a camera frame ends: the frame is
\* skipped, or the detector's result for it has been handled.
FrameEnd == (nFrames' # nFrames /\ pending' = NoResult) \/ ResultStep

\* C25. Every camera frame adds one to the frame counter; if by then 1000 ms
\* or more have passed since the window started, the counter's value is
\* published as the FPS, the counter returns to 0 and the window starts anew
\* at the present time; otherwise the FPS and the window start stay. No
\* other step changes the counter, the window start or the FPS.
C25_CountsEveryFrame ==
    [][/\ FrameEnd =>
             IF now' - lastTimeRef >= 1000
             THEN fps' = frameCountRef + 1 /\ frameCountRef' = 0 /\ lastTimeRef' = now'
             ELSE frameCountRef' = frameCountRef + 1 /\ UNCHANGED <<fps, lastTimeRef>>
       /\ ~FrameEnd => UNCHANGED fpsVars]_vars

\* C26. For every euler.y in [-pi, pi] the corrected yaw lies in [-pi, pi].
C26_FixedYawInRange ==
    (-PI <= eulerY /\ eulerY <= PI) => (-PI <= fixedYaw /\ fixedYaw <= PI)

\* A raw yaw just below 0: the subtraction of pi left the range, 2 pi was
\* added, and the corrected yaw is just above -pi.
C26_Witness == eulerY = -1 /\ fixedYaw = 1 - PI

\* C29. Every processed frame publishes a rotation and a gaze that agree in
\* yaw and pitch, both holding the filtered head angle plus the eye
\* component the handler adds in iris mode; the roll published is the output
\* of the roll filter on the raw roll less the offset.
C29_RotationIsGaze ==
    [][(ResultStep /\ lastOutcome' = "processed") =>
          /\ rotation'.yaw = gaze'.yaw /\ rotation'.pitch = gaze'.pitch
          /\ onResultsMode = "iris" =>
                /\ rotation'.yaw = filterYaw'.xPrev
                                   + EyeGainYaw * EyeAngle(iris'.x, pending.eyeScaleNorm)
                /\ rotation'.pitch = filterPitch'.xPrev
                                     + EyeGainPitch * EyeAngle(iris'.y, pending.eyeScaleNorm)
          /\ onResultsMode = "head" =>
                rotation'.yaw = filterYaw'.xPrev /\ rotation'.pitch = filterPitch'.xPrev
          /\ filterRoll' = OneEuroFilterFilter(filterRoll, pending.euler.z - rotationOffsetRef'.roll, now)
          /\ rotation'.roll = filterRoll'.xPrev]_vars

\* A frame processed in iris mode: the published rotation differs from the
\* filtered head angle by the eye component and equals the gaze.
C29_Witness ==
    /\ lastOutcome = "processed" /\ onResultsMode = "iris"
    /\ rotation.yaw # filterYaw.xPrev /\ rotation.pitch # filterPitch.xPrev
    /\ rotation.yaw = gaze.yaw /\ rotation.pitch = gaze.pitch
    /\ rotation.roll = filterRoll.xPrev /\ rotation.roll # 0

\* C22. No published blink state holds an EAR that is Infinity or NaN.
C22_EARGuarded ==
    /\ blink.leftEAR \notin {EARInfinity, EARNaN}
    /\ blink.rightEAR \notin {EARInfinity, EARNaN}
    /\ blink.blinkStrength \notin {EARInfinity, EARNaN}

\* C24. A processed frame is classified as blinking exactly when the average
\* of its two EARs is a number below 0.18, whatever the blink state before
\* it: an average of exactly 0.18 is not a blink.
C24_StrictThreshold ==
    [][(ResultStep /\ lastOutcome' = "processed") =>
          LET l   == calculateEAR(pending.leftEye)
              r   == calculateEAR(pending.rightEye)
              num == l >= 0 /\ r >= 0
          IN  /\ blink'.leftEAR = l /\ blink'.rightEAR = r
              /\ num => blink'.blinkStrength = RDiv(l + r, 2)
              /\ blink'.isBlinking = (num /\ l + r < 2 * BlinkThreshold)
              /\ (num /\ l + r = 2 * BlinkThreshold) => ~blink'.isBlinking]_vars

\* A frame whose average EAR is exactly 0.18 followed a blink and was
\* classified as not blinking.
C24_Witness ==
    /\ lastOutcome = "processed" /\ pending = NoResult
    /\ wasBlinking
    /\ blink = [isBlinking |-> FALSE, blinkStrength |-> BlinkThreshold,
                leftEAR |-> 200, rightEAR |-> 160]

(***************************************************************************)
(* Properties of the position tracker                                      *)
(***************************************************************************)
\* One coordinate of a drift step: new is 0.05 n + 0.95 old to within the
\* resolution of the model, no farther from n than old and on the same side.
Toward(n, old, new) ==
    /\ Abs(100 * new - (5 * n + 95 * old)) <= 50
    /\ Abs(new - n) <= Abs(old - n)
    /\ old >= n => new >= n
    /\ old <= n => new <= n

\* C5. Every result without a face, through a run of 50 of them, replaces
\* each coordinate of the eye position by 0.05 neutral + 0.95 previous with
\* neutral = (0, 0, 800): the coordinate gets no farther from its neutral
\* value and does not cross it; the published position is the new one.
C5_DriftsToNeutral ==
    [][(noFaceRun' = noFaceRun + 1) =>
          /\ Toward(0, eyePosEMARef.x, eyePosEMARef'.x)
          /\ Toward(0, eyePosEMARef.y, eyePosEMARef'.y)
          /\ Toward(80000, eyePosEMARef.z, eyePosEMARef'.z)
          /\ legacyEyePos' = eyePosEMARef']_vars

\* Fifty results without a face in a row, begun away from neutral on the
\* negative side in x and y and closer than neutral in z, and not yet there.
C5_Witness ==
    /\ noFaceRun = NoFaceFrames /\ nFaces > 0
    /\ eyePosEMARef.x < 0 /\ eyePosEMARef.y < 0 /\ eyePosEMARef.z < 80000

UpTo(n) == Row([k \in 1..n |-> k - 1])

Terminal(phase) == phase \in {"done", "cancelled"}

\* C8. The point index starts at 0 and only ever grows by one, and only
\* once the point it leaves has been recorded; point k is recorded when
\* exactly the points 0..k-1 have been; fit runs once, in the step that
\* records the ninth point, and that step ends the session; a session calls
\* at most one of onComplete and onCancel, once, and then stays as it ended.
C8_NinePointsInOrder ==
    [][/\ step' # step => (step' = step + 1 /\ recorded = UpTo(step + 1))
       /\ step' <= 8
       /\ recorded' # recorded => (recorded = UpTo(step) /\ recorded' = UpTo(step + 1))
       /\ nFit' # nFit => (nFit = 0 /\ nFit' = 1 /\ recorded # recorded' /\ recorded' = UpTo(9))
       /\ recorded' = UpTo(9) => (nFit' = 1 /\ Terminal(calPhase'))
       /\ nComplete' + nCancel' <= 1
       /\ (calPhase' = "done") = (nComplete' = 1)
       /\ (calPhase' = "cancelled") = (nCancel' = 1)
       /\ Terminal(calPhase) => calPhase' = calPhase]_vars

\* All nine points recorded in order, the fit run and the session Done.
C8_Witness ==
    /\ calPhase = "done" /\ recorded = UpTo(9) /\ step = 8
    /\ nFit = 1 /\ nComplete = 1 /\ nCancel = 0 /\ Len(samples) = 9

\* C9. While a session is running Cancel can be pressed; pressing it ends
\* the session with onCancel, without a fit and with the committed model as
\* it was; after that no point is recorded, no sample stored, no fit run,
\* onComplete not called and the committed model not changed.
C9_CancelAnywhere ==
    [][/\ calPhase = "active" => ENABLED CancelCalibration
       /\ (calPhase = "active" /\ calPhase' = "cancelled" /\ recorded' = recorded)
             => UNCHANGED <<committedModel, samples, nFit, nComplete>>
       /\ (calPhase = "cancelled" /\ nFit = 0)
             => UNCHANGED <<calPhase, committedModel, samples, recorded, nFit, nComplete, nCancel>>]_vars

\* Cancelled in the gap after a point, with a model committed earlier; the
\* timeout of that point has fired since.
C9_Witness ==
    /\ calPhase = "cancelled" /\ nFit = 0 /\ nComplete = 0
    /\ ~stepTimeout /\ countdown = 0 /\ recorded = UpTo(step + 1) /\ step = 3
    /\ committedModel = PresetModel

\* The 6x6 normal matrix of the inputs has a pivot below the epsilon.
NormalMatrixSingular(inputs) ==
    LET X == Row([p \in 1..Len(inputs) |-> Basis(inputs[p].x, inputs[p].y)])
    IN  invert(multiply(transpose(X), X)).singular

\* C11. When the normal matrix of the nine recorded samples is singular, the
\* fit of finishCalibration fails: the session calls onCancel and not
\* onComplete, and commits nothing; fit on those samples returns without
\* throwing and leaves both coefficient vectors of the instance as they
\* were, whether it held a model or none.
C11_SingularFitCancels ==
    [][(nFit' = nFit + 1 /\ NormalMatrixSingular(samples')) =>
          /\ nCancel' = nCancel + 1 /\ nComplete' = nComplete
          /\ committedModel' = committedModel
          /\ \A held \in {NoModel, PresetModel} :
                LET r == fit(held.x, held.y, samples', Targets)
                IN  /\ r.coefficientsX = held.x /\ r.coefficientsY = held.y
                    /\ r.outcome # "threw"]_vars

\* A session whose nine samples were all the same gaze (the tracker paused)
\* ran the fit and was cancelled, the model committed earlier still in force.
C11_Witness ==
    /\ nFit = 1 /\ nCancel = 1 /\ nComplete = 0 /\ Len(samples) = 9
    /\ NormalMatrixSingular(samples) /\ committedModel = PresetModel

\* The grid target of point k (k from 1): (x/100, y/100) of POINTS.
GridTarget(k) == [x |-> Rat(POINTS[k].x, 100), y |-> Rat(POINTS[k].y, 100)]

\* C27. The samples of a session are paired with the grid points by
\* position. When the countdown of point i completes, exactly i averages are
\* stored and the average of point i is appended to them; the stored
\* averages change in no other step, so the k-th is the one collected for
\* point k. The fit runs on the nine of them, the k-th paired with the grid
\* target (x/100, y/100) of point k, and its coefficients are what the
\* session ends with.
C27_SamplesPaired ==
    [][/\ recorded' # recorded =>
             /\ Len(samples) = step
             /\ samples' = Append(samples, Average(currentSamplesRef, closureGaze))
       /\ recorded' = recorded => samples' = samples
       /\ nFit' # nFit =>
             LET finalSamples == Append(samples, Average(currentSamplesRef, closureGaze))
                 outputs9     == Row([k \in 1..9 |-> GridTarget(k)])
                 r            == fit(Null, Null, finalSamples, outputs9)
             IN  /\ Len(finalSamples) = 9 /\ Len(POINTS) = 9
                 /\ IF r.coefficientsX # Null /\ r.coefficientsY # Null
                    THEN /\ calPhase' = "done"
                         /\ committedModel' = [x |-> r.coefficientsX, y |-> r.coefficientsY]
                    ELSE calPhase' = "cancelled" /\ committedModel' = committedModel]_vars

\* A session ended with nine averages, the k-th being the gaze of a user
\* looking at point k, and with a model fitted to them.
C27_Witness ==
    /\ calPhase = "done" /\ nFit = 1 /\ Len(samples) = 9
    /\ \A k \in 1..9 : samples[k] = [x |-> GazeAt(k).yaw, y |-> GazeAt(k).pitch]
    /\ committedModel = FinishCoefficients(samples)

\* C18. The samples recordPoint averages for a point are exactly the gaze
\* values delivered while the point's countdown was in its final tick and
\* the point not yet recorded, in order of arrival: none delivered while the
\* countdown was above 1, in the gap between points or during another
\* point; and the buffer is empty when a new point is entered.
C18_WindowSamplesOnly ==
    [][/\ recorded' # recorded => currentSamplesRef = received
       /\ step' # step => currentSamplesRef' = <<>>]_vars

\* C19. The pair recorded for a point is the mean yaw and the mean pitch of
\* the collected samples whose yaw and pitch are both numbers; when no
\* collected sample is valid it is the most recent gaze at the moment the
\* countdown completes.
C19_MeanOrLatest ==
    [][recorded' # recorded =>
          LET valid == SelectSeq(currentSamplesRef, IsValid)
              n     == Len(valid)
              pair  == samples'[Len(samples')]
          IN  /\ Len(samples') = Len(samples) + 1
              /\ IF n > 0
                 THEN /\ RatMul(pair.x, Whole(n)) = RatSumTo(Row([k \in 1..n |-> valid[k].yaw]), n)
                      /\ RatMul(pair.y, Whole(n)) = RatSumTo(Row([k \in 1..n |-> valid[k].pitch]), n)
                 ELSE pair = [x |-> gazeProp.yaw, y |-> gazeProp.pitch]]_vars

\* C20 as stated. A session that receives no gaze updates never advances:
\* no point is recorded, the point index stays where it is, and the session
\* reaches neither the fit nor, on its own, its end.
C20_NoGazeNoAdvance ==
    [][~gazeLive =>
          /\ recorded' = recorded /\ step' = step
          /\ nFit' = nFit /\ nComplete' = nComplete]_vars

\* C20, amended. A session that receives no gaze updates advances on its
\* interval timer all the same: while the interval runs a tick is possible
\* without any gaze, and it counts down or, at 1, records the point; the
\* pair recorded is the gaze the overlay was last rendered with; the index
\* moves on by one after each record, and the record of the ninth point
\* runs the fit, which ends the session with onComplete or onCancel.
C20_AdvancesOnTimer ==
    [][~gazeLive =>
          /\ (timerActive /\ countdown > 1) => ENABLED (IntervalTick /\ countdown' = countdown - 1)
          /\ (timerActive /\ countdown <= 1 /\ step < 8) =>
                ENABLED (IntervalTick /\ recorded' = Append(recorded, step))
          /\ recorded' # recorded =>
                /\ samples' = Append(samples, [x |-> gazeProp.yaw, y |-> gazeProp.pitch])
                /\ IF step < 8 THEN stepTimeout' /\ nFit' = nFit
                               ELSE nFit' = nFit + 1 /\ nComplete' + nCancel' = 1
          /\ (stepTimeout /\ calPhase = "active") => ENABLED (TimeoutFire /\ step' = step + 1)
          /\ step' # step => step' = step + 1]_vars

\* A session on a paused tracker has recorded all nine points and run the
\* fit without a single gaze update.
C20_Witness ==
    /\ ~gazeLive /\ recorded = UpTo(9) /\ step = 8 /\ Len(samples) = 9
    /\ nFit = 1 /\ nComplete + nCancel = 1 /\ received = <<>>

(***************************************************************************)
(* Properties of the gaze controller                                       *)
(***************************************************************************)
\* C12. Two gaze controllers given the same rotation, gaze and isTracking
\* on every render, and whatever calibration each (none, one without a
\* regression, or different coefficients), compute the same cursor target on
\* every frame.
C12_CalibrationIgnored == cursorTarget[1] = cursorTarget[2]

\* A frame drawn away from the centre while one instance held the preset
\* model and the other the other model.
C12_Witness ==
    /\ framedApart /\ cursorTarget[1] = [x |-> 7000, y |-> -3500]
    /\ regressionRef = <<PresetModel, OtherModel>>

(***************************************************************************)
(* Properties of the regression                                            *)
(***************************************************************************)
\* C10. A call of fit with fewer than 6 input points returns without
\* throwing and leaves both coefficient vectors as they were; while there
\* are no coefficients predict returns (0, 0).
C10_RefusesFewPoints ==
    [][/\ (lastCall'.op = "fit" /\ lastCall'.n < 6)
             => (UNCHANGED <<coefficientsX, coefficientsY>> /\ lastCall'.outcome # "threw")
       /\ (lastCall'.op = "predict" /\ coefficientsX = <<>> /\ coefficientsY = <<>>)
             => lastCall'.result = [x |-> <<0, 1>>, y |-> <<0, 1>>]]_vars

\* fit was called with 5 points on an instance holding a model, which it
\* still holds.
C10_Witness ==
    /\ lastCall.op = "fit" /\ lastCall.n = 5
    /\ coefficientsX = PresetModel.x /\ coefficientsY = PresetModel.y

\* Inputs no quadratic other than 0 vanishes on: seven or nine points of the
\* grid in grid order, six, seven or nine in the other order.
GeneralPositionInputs ==
    {SubSeq(GridInputs, 1, n) : n \in {7, 9}} \cup {SubSeq(ShuffledInputs, 1, n) : n \in {6, 7, 9}}

\* The linear answer of the calibration screen: 0.5 + 0.2 gaze.
GridModel ==
    [x |-> <<Rat(1, 5), Whole(0), Whole(0), Whole(0), Whole(0), Rat(1, 2)>>,
     y |-> <<Whole(0), Rat(1, 5), Whole(0), Whole(0), Whole(0), Rat(1, 2)>>]

\* C16. When the last call was a fit with six or more inputs in general position and
\* targets that a quadratic over [gx, gy, gx gy, gx^2, gy^2, 1] generates
\* exactly, fit succeeds, the coefficients it stores are those of the
\* generating quadratic, and predict at every training input returns that
\* input's target.
C16_RoundTrip ==
    (/\ lastCall.op = "fit" /\ lastCall.n >= 6
     /\ lastCall.inputs \in GeneralPositionInputs) =>
       \A m \in {GridModel, QuadraticModel} :
          lastCall.targets = GeneratedTargets(m, lastCall.inputs) =>
             /\ lastCall.outcome = "trained"
             /\ coefficientsX = m.x /\ coefficientsY = m.y
             /\ \A p \in 1..lastCall.n :
                   predict(coefficientsX, coefficientsY, lastCall.inputs[p].x, lastCall.inputs[p].y)
                      = lastCall.targets[p]

\* fit has learned the full quadratic from six points, on an instance that
\* held another model before.
C16_Witness ==
    /\ lastCall.op = "fit" /\ lastCall.n = 6 /\ lastCall.outcome = "trained"
    /\ lastCall.targets = GeneratedTargets(QuadraticModel, lastCall.inputs)
    /\ coefficientsX = QuadraticModel.x /\ coefficientsY = QuadraticModel.y

(***************************************************************************)
(* Properties of the Kalman filter                                         *)
(***************************************************************************)
\* S = H P H^T + R of an instance after its predict step (lines 85-89).
InnovationCovariance(k) ==
    addMatrices(multiplyMatrices(multiplyMatrices(KalmanH, k.P), transposeTest(KalmanH)), k.R)

\* |det S| < 1e-6 (lines 171-172).
IllConditioned(S) == Abs(RDiv(S[1][1] * S[2][2] - S[1][2] * S[2][1], One)) < DetEpsilon

\* An update of an initialized instance whose innovation covariance is
\* ill-conditioned.
SkippedCorrection ==
    /\ nUpdates' = nUpdates + 1
    /\ kf.initialized
    /\ IllConditioned(InnovationCovariance(KalmanPredict(kf)))

\* C21. An update whose innovation covariance has |determinant| < 1e-6 skips
\* the correction and keeps the prediction: the stored state is F x, the
\* stored covariance is F P F^T + Q, the position returned is that of F x,
\* and every entry stored is a number.
C21_SingularKeepsPrediction ==
    [][SkippedCorrection =>
          /\ kf'.x = multiplyMatrixVector(KalmanF, kf.x)
          /\ kf'.P = addMatrices(multiplyMatrices(multiplyMatrices(KalmanF, kf.P),
                                                  transposeTest(KalmanF)), kf.Q)
          /\ kfOut' = [x |-> kf'.x[1], y |-> kf'.x[2]]
          /\ \A i \in 1..4 : kf'.x[i] \in Int /\ \A j \in 1..4 : kf'.P[i][j] \in Int]_vars

\* The last update found an ill-conditioned innovation covariance, with a
\* measurement away from the prediction, and kept the prediction.
C21_Witness ==
    /\ nUpdates > 0 /\ kfCall.before.initialized
    /\ IllConditioned(InnovationCovariance(KalmanPredict(kfCall.before)))
    /\ kfCall.mx # KalmanPredict(kfCall.before).x[1]
    /\ KalmanPredict(kfCall.before).P[1][1] > 0
    /\ kf.x = KalmanPredict(kfCall.before).x
    /\ kf.P = KalmanPredict(kfCall.before).P

(***************************************************************************)
(* Properties of useMediaPipe                                              *)
(***************************************************************************)
\* The step is a re-run of the effect.
EffectReRun == mpEffectDeps' # mpEffectDeps

\* C28: in useMediaPipe a no-face result sets isTrackingRef to false; from
\* then on, while the detector owes nothing, every step that is not a re-run
\* of the effect leaves the ref false, sends no frame to the detector,
\* handles no result and moves the smoothed position nowhere but to the
\* neutral position of reset; and the effect re-runs only when isTracking,
\* isInitialized or onPositionUpdate differs from what it last ran with.
C28_LostUntilEffect ==
    [][/\ (mpHandled' # mpHandled /\ mpPending.faces = 0) =>
              (~mpTrackingRef' /\ mpPending' = NoFrame)
       /\ (~mpTrackingRef /\ mpPending = NoFrame /\ ~EffectReRun) =>
              /\ ~mpTrackingRef'
              /\ mpPending' = NoFrame
              /\ mpHandled' = mpHandled
              /\ mpEyePos' \in {mpEyePos, Neutral}
       /\ EffectReRun => mpEffectDeps # MediaPipeDeps]_vars

\* A no-face result was handled, the camera then delivered a frame with a
\* face in it, and the frame was not sent: the ref is still false although
\* the caller wants tracking and the effect has nothing to re-run for.
C28_Witness ==
    /\ mpHandled > 0
    /\ ~mpTrackingRef
    /\ mpIsTracking
    /\ mpCameraOn
    /\ mpEffectDeps = MediaPipeDeps
    /\ mpLast.frame.faces = 1
    /\ ~mpLast.sent
    /\ mpPending = NoFrame

====
